---- MODULE Spec2Model ----
(***************************************************************************)
(* Superblocker: a model of the partitioner's constraint enforcement, the  *)
(* cell size optimizer, the modification semantics, the superblock router  *)
(* and the streaming partition endpoint.                                   *)
(***************************************************************************)
EXTENDS Integers, Sequences, FiniteSets, TLC

VARIABLES
    cells,          \* CityPartitioner.cells handed to _enforce_all_constraints
    superblocks,    \* CityPartitioner.superblocks
    enfLog,         \* cells for which "Constraint enforcement failed" was logged
    enfPc,          \* _enforce_all_constraints: "enforcing", "done" or "failed"
    ag,             \* graph handed to the modification-applying functions
    amods,          \* modification list handed to them
    aout,           \* what the last application produced
    scells,         \* CityPartitioner.cells during _optimize_cell_sizes
    siter,          \* _optimize_cell_sizes: iteration
    spc,            \* _optimize_cell_sizes: position in the loop
    sland,          \* the street network and the land the cells are cut from
    rgraph,         \* SuperblockRouter.graph
    rpartition,     \* SuperblockRouter.partition (superblocks)
    rmodified,      \* SuperblockRouter.modified_graph
    rresult,        \* the last RouteResult, with the request it answers
    squeue,         \* partition_city_stream: progress_queue
    sholder,        \* partition_city_stream: result_holder
    swork,          \* worker thread: position and progress events left to report
    sgen,           \* generate(): position
    sout,           \* records yielded on the stream so far
    squiet,         \* whole seconds since the stream last carried a record
    partition_cache,\* analysis.partition_cache, in insertion order
    eheap,          \* the graph and partition objects the cache and the routers refer to
    ereqs,          \* the requests of the partition and route endpoints
    eloop,          \* the request the event loop is running; 0 between requests
    kcands,         \* SuperblockAnalyzer.analyze: the score of each detected candidate
    kfutures,       \* analyze: the scoring tasks not yet collected
    kscored,        \* analyze: scored_candidates
    kres,           \* analyze: position and the returned candidates
    cservice,       \* CacheService: enabled, default_ttl
    cfiles,         \* the files of cache_dir, by cache key
    cnow,           \* time.time(), in whole seconds
    clast,          \* the last call on the service and what it returned
    csets,          \* by cache key, the most recent set that succeeded and was not invalidated
    cops            \* number of calls made

enfVars    == <<cells, superblocks, enfLog, enfPc>>
applyVars  == <<ag, amods, aout>>
sizeVars   == <<scells, siter, spc, sland>>
routeVars  == <<rgraph, rpartition, rmodified, rresult>>
streamVars == <<squeue, sholder, swork, sgen, sout, squiet>>
endVars    == <<partition_cache, eheap, ereqs, eloop>>
scoreVars  == <<kcands, kfutures, kscored, kres>>
cacheVars  == <<cservice, cfiles, cnow, clast, csets, cops>>
laterVars  == <<endVars, scoreVars, cacheVars>>
otherVars  == <<enfVars, applyVars, sizeVars, routeVars, streamVars, scoreVars, cacheVars>>
vars == <<cells, superblocks, enfLog, enfPc, ag, amods, aout, scells, siter, spc, sland,
          rgraph, rpartition, rmodified, rresult,
          squeue, sholder, swork, sgen, sout, squiet,
          partition_cache, eheap, ereqs, eloop, kcands, kfutures, kscored, kres,
          cservice, cfiles, cnow, clast, csets, cops>>

(***************************************************************************)
(* Generic helpers                                                         *)
(***************************************************************************)
MinOf(a, b) == IF a < b THEN a ELSE b
MaxOf(a, b) == IF a < b THEN b ELSE a
Abs(a) == IF a < 0 THEN -a ELSE a

SetMin(S) == CHOOSE x \in S : \A y \in S : x <= y

RECURSIVE SumOver(_, _)
SumOver(S, f) ==
    IF S = {} THEN 0
    ELSE LET x == CHOOSE y \in S : TRUE IN f[x] + SumOver(S \ {x}, f)

\* every enumeration of the finite set S without repetition
Orderings(S) ==
    {s \in [1..Cardinality(S) -> S] :
        \A i, j \in 1..Cardinality(S) : i # j => s[i] # s[j]}

RECURSIVE Flatten(_)
Flatten(ss) == IF ss = <<>> THEN <<>> ELSE Head(ss) \o Flatten(Tail(ss))

\* nodes reachable from the nodes of S along the directed pairs of P (S included)
RECURSIVE Reach(_, _)
Reach(P, S) ==
    LET nxt == S \cup {p[2] : p \in {q \in P : q[1] \in S}}
    IN IF nxt = S THEN S ELSE Reach(P, nxt)

(***************************************************************************)
(* Graph model: a directed multigraph is a set of edge records             *)
(***************************************************************************)
NoSb == 0

MkEdge(u, v, key, hw, osmid, len) ==
    [u |-> u, v |-> v, key |-> key, highway |-> hw, osmid |-> osmid,
     length |-> len, vehicle_blocked |-> FALSE, superblock_id |-> NoSb]

GraphNodes(g) == {e.u : e \in g} \cup {e.v : e \in g}
Between(g, a, b) == {e \in g : e.u = a /\ e.v = b}
DirPairs(g) == {<<e.u, e.v>> : e \in g}
UndirPairs(g) == DirPairs(g) \cup {<<e.v, e.u>> : e \in g}

\* nx.descendants(graph, n): reachable along directed edges, n excluded
Descendants(g, n) == Reach(DirPairs(g), {n}) \ {n}

\* nx.has_path on graph.to_undirected()
HasUndirectedPath(g, a, b) == b \in Reach(UndirPairs(g), {a})

HIERARCHY_MAP(hw) ==
    CASE hw \in {"motorway", "motorway_link"} -> 1
      [] hw \in {"trunk", "trunk_link"} -> 2
      [] hw \in {"primary", "primary_link"} -> 3
      [] hw \in {"secondary", "secondary_link"} -> 4
      [] hw \in {"tertiary", "tertiary_link"} -> 5
      [] hw = "residential" -> 6
      [] hw = "living_street" -> 7
      [] hw = "unclassified" -> 8
      [] hw = "service" -> 9
      [] OTHER -> 6

ARTERIAL_TYPES ==
    {"primary", "secondary", "tertiary",
     "primary_link", "secondary_link", "tertiary_link"}

(***************************************************************************)
(* Modification semantics: the five places that apply a modification list  *)
(***************************************************************************)
MkMod(u, v, key, type, dir) ==
    [u |-> u, v |-> v, key |-> key, modification_type |-> type, direction |-> dir]

RemoveDir(g, a, b) == g \ Between(g, a, b)
MarkDir(g, a, b) ==
    {IF e.u = a /\ e.v = b THEN [e EXCEPT !.vehicle_blocked = TRUE] ELSE e : e \in g}
MarkDirSb(g, a, b, sb) ==
    {IF e.u = a /\ e.v = b
       THEN [e EXCEPT !.vehicle_blocked = TRUE, !.superblock_id = sb] ELSE e : e \in g}

\* a one-way conversion that closes the kept direction when the blocked one is
\* already gone
OneWayStepClosesWhatIsLeft(g, m) ==
    LET a == IF m.direction = "u_to_v" THEN m.v ELSE m.u
        b == IF m.direction = "u_to_v" THEN m.u ELSE m.v
    IN IF Between(g, a, b) # {} THEN RemoveDir(g, a, b) ELSE RemoveDir(g, b, a)

\* a one-way conversion that turns the blocked edges around instead of removing
\* them
OneWayStepTurnsAround(g, m) ==
    LET a == IF m.direction = "u_to_v" THEN m.v ELSE m.u
        b == IF m.direction = "u_to_v" THEN m.u ELSE m.v
    IN RemoveDir(g, a, b) \cup
       {[e EXCEPT !.u = b, !.v = a, !.key = e.key + 2] : e \in Between(g, a, b)}

\* the one-way branch shared by the enforcer, the validator and the router
OneWayStep(g, m) ==
    IF m.direction = "u_to_v" THEN RemoveDir(g, m.v, m.u) ELSE RemoveDir(g, m.u, m.v)

\* ConstraintEnforcer._validate_modifications: one modification on the scratch graph
ValidateStep(g, m) ==
    CASE m.modification_type = "modal_filter" -> RemoveDir(RemoveDir(g, m.u, m.v), m.v, m.u)
      [] m.modification_type = "one_way" -> OneWayStep(g, m)
      [] OTHER -> g

\* ConstraintEnforcer.get_modified_graph: one modification
GetModifiedStep(g, m) ==
    CASE m.modification_type = "modal_filter" -> MarkDir(MarkDir(g, m.u, m.v), m.v, m.u)
      [] m.modification_type = "one_way" -> OneWayStep(g, m)
      [] OTHER -> g

\* AccessibilityValidator._apply_modifications: one modification
AccessibilityStep(g, m) ==
    CASE m.modification_type = "modal_filter" -> MarkDir(MarkDir(g, m.u, m.v), m.v, m.u)
      [] m.modification_type = "one_way" -> OneWayStep(g, m)
      [] m.modification_type = "full_closure" -> RemoveDir(RemoveDir(g, m.u, m.v), m.v, m.u)
      [] OTHER -> g

\* SuperblockRouter._build_modified_graph: one modification of superblock sb
RouterStep(g, m, sb) ==
    CASE m.modification_type = "modal_filter" ->
            MarkDirSb(MarkDirSb(g, m.u, m.v, sb), m.v, m.u, sb)
      [] m.modification_type = "one_way" -> OneWayStep(g, m)
      [] m.modification_type = "full_closure" -> RemoveDir(RemoveDir(g, m.u, m.v), m.v, m.u)
      [] OTHER -> g

\* CityPartitioner._find_unreachable_addresses: one modification
ReachabilityStep(g, m) ==
    CASE m.modification_type = "modal_filter" -> RemoveDir(RemoveDir(g, m.u, m.v), m.v, m.u)
      [] m.modification_type = "one_way" /\ m.direction # "none" -> OneWayStep(g, m)
      [] OTHER -> g

RECURSIVE ApplyValidate(_, _)
ApplyValidate(g, mods) ==
    IF mods = <<>> THEN g ELSE ApplyValidate(ValidateStep(g, Head(mods)), Tail(mods))

RECURSIVE get_modified_graph(_, _)
get_modified_graph(g, mods) ==
    IF mods = <<>> THEN g
    ELSE get_modified_graph(GetModifiedStep(g, Head(mods)), Tail(mods))

RECURSIVE ApplyAccessibility(_, _)
ApplyAccessibility(g, mods) ==
    IF mods = <<>> THEN g
    ELSE ApplyAccessibility(AccessibilityStep(g, Head(mods)), Tail(mods))

RECURSIVE ApplyRouterMods(_, _, _)
ApplyRouterMods(g, mods, sb) ==
    IF mods = <<>> THEN g
    ELSE ApplyRouterMods(RouterStep(g, Head(mods), sb), Tail(mods), sb)

RECURSIVE ApplyReachability(_, _)
ApplyReachability(g, mods) ==
    IF mods = <<>> THEN g
    ELSE ApplyReachability(ReachabilityStep(g, Head(mods)), Tail(mods))

\* the edges a vehicle may use: present and not vehicle_blocked
VehicleEdges(g) == {e \in g : ~e.vehicle_blocked}

(***************************************************************************)
(* ConstraintEnforcer                                                      *)
(***************************************************************************)
NumSectors == 4

\* _assign_sectors/_angle_to_sector for four sectors: the sector of the angle
\* atan2(dy, dx), sector 0 being [-pi/4, pi/4), 1 [pi/4, 3pi/4), 2 the slice that
\* wraps at pi, 3 [-3pi/4, -pi/4)
AngleToSector(dx, dy) ==
    CASE dx = 0 /\ dy = 0 -> 0
      [] dx > 0 /\ -dx <= dy /\ dy < dx -> 0
      [] dy > 0 /\ -dy < dx /\ dx <= dy -> 1
      [] dx < 0 /\ dx < dy /\ dy <= -dx -> 2
      [] OTHER -> 3

\* _assign_sectors: node_to_sector, for the entry nodes that are in the graph
AssignSectors(g, pos, entry_nodes) ==
    [n \in entry_nodes \cap GraphNodes(g) |-> AngleToSector(pos[n][1], pos[n][2])]

EntriesOfSector(sec, s) == {n \in DOMAIN sec : sec[n] = s}

\* _find_violations: the (entry_a, entry_b) pairs, sector_a < sector_b, with an
\* undirected path between them
FindViolations(g, sec) ==
    {p \in (DOMAIN sec) \X (DOMAIN sec) :
        /\ sec[p[1]] < sec[p[2]]
        /\ HasUndirectedPath(g, p[1], p[2])}

\* _edge_cut_cost
EdgeCutCost(e) == 10 - HIERARCHY_MAP(e.highway) + 1

\* G_simple of _compute_modification_plan: the undirected pairs and the minimum
\* capacity of the parallel edges of each
SimplePairs(g) == {<<MinOf(e.u, e.v), MaxOf(e.u, e.v)>> : e \in g}
SimpleCapacity(g, p) ==
    SetMin({EdgeCutCost(e) : e \in Between(g, p[1], p[2]) \cup Between(g, p[2], p[1])})

Crosses(p, T) == (p[1] \in T) # (p[2] \in T)
CutWeight(g, T) ==
    LET crossing == {p \in SimplePairs(g) : Crosses(p, T)}
    IN SumOver(crossing, [p \in crossing |-> SimpleCapacity(g, p)])

\* nx.minimum_cut between the super-source (joined to A) and the super-sink (joined
\* to B): the sink side is the set of nodes that reach the sink in the residual
\* network, which is the smallest sink side among the minimum cuts
MinCutSinkSide(g, A, B) ==
    LET sides == {T \in SUBSET (GraphNodes(g) \ A) : B \subseteq T}
        best == SetMin({CutWeight(g, T) : T \in sides})
        mins == {T \in sides : CutWeight(g, T) = best}
    IN {n \in GraphNodes(g) : \A T \in mins : n \in T}

\* _find_sector_disconnect_cut
FindSectorDisconnectCut(g, entries_a, entries_b) ==
    LET A == entries_a \cap GraphNodes(g)
        B == entries_b \cap GraphNodes(g)
    IN IF A = {} \/ B = {} THEN {}
       ELSE {p \in SimplePairs(g) : Crosses(p, MinCutSinkSide(g, A, B))}

\* _evaluate_direction_score
EvaluateDirectionScore(g, sec) ==
    LET ents == DOMAIN sec \cap GraphNodes(g)
        one(e) == Cardinality(Descendants(g, e))
                  - 1000 * Cardinality({o \in DOMAIN sec :
                                            sec[o] # sec[e] /\ o \in Descendants(g, e)})
    IN SumOver(ents, [e \in ents |-> one(e)])

\* _compute_optimal_one_way_direction
ComputeOptimalOneWayDirection(g, sec, u, v) ==
    LET keep_uv == EvaluateDirectionScore(RemoveDir(g, v, u), sec)
        keep_vu == EvaluateDirectionScore(RemoveDir(g, u, v), sec)
    IN IF keep_vu > keep_uv THEN "v_to_u" ELSE "u_to_v"

\* a choice of modification that makes every cut street one-way
DetermineModificationAlwaysOneWay(g, sec, e) ==
    MkMod(e.u, e.v, e.key, "one_way", ComputeOptimalOneWayDirection(g, sec, e.u, e.v))

\* _determine_modification_type, as the modification it leads to
DetermineModification(g, sec, e) ==
    IF HIERARCHY_MAP(e.highway) <= 5
    THEN MkMod(e.u, e.v, e.key, "one_way", ComputeOptimalOneWayDirection(g, sec, e.u, e.v))
    ELSE MkMod(e.u, e.v, e.key, "modal_filter", "none")

\* the parallel edges a -> b in key order (the order graph[a][b].items() yields)
RECURSIVE ByKey(_)
ByKey(es) ==
    IF es = {} THEN <<>>
    ELSE LET e == CHOOSE x \in es : \A y \in es : x.key <= y.key
         IN <<e>> \o ByKey(es \ {e})

ModsOfEdges(g, sec, es) == [i \in 1..Len(es) |-> DetermineModification(g, sec, es[i])]

\* the sector pairs _compute_modification_plan cuts: those with a violation
ViolatingSectorPairs(sec, violations) == {<<sec[p[1]], sec[p[2]]>> : p \in violations}

CutEdges(g, sec, violations) ==
    UNION {FindSectorDisconnectCut(g, EntriesOfSector(sec, sp[1]), EntriesOfSector(sec, sp[2]))
              : sp \in ViolatingSectorPairs(sec, violations)}

\* _compute_modification_plan followed by _generate_modifications: the cut edges are
\* visited in the iteration order of the set cut_edges (order), each with its u -> v
\* edges and then its v -> u edges; the modal filters are emitted first, then the
\* one-way conversions
GenerateModifications(g, sec, order) ==
    LET perCut == [i \in 1..Len(order) |->
                     ModsOfEdges(g, sec, ByKey(Between(g, order[i][1], order[i][2])))
                     \o ModsOfEdges(g, sec, ByKey(Between(g, order[i][2], order[i][1])))]
        all == Flatten(perCut)
        IsFilter(m) == m.modification_type = "modal_filter"
        IsOneWay(m) == m.modification_type = "one_way"
    IN SelectSeq(all, IsFilter) \o SelectSeq(all, IsOneWay)

\* _validate_modifications: the violations that remain on the scratch graph
ValidateModifications(g, sec, mods) == FindViolations(ApplyValidate(g, mods), sec)

\* enforce_constraints: (modifications, remaining violations), with the sectors
\* it assigned; order is the iteration order of cut_edges
EnforceConstraints(g, pos, entry_nodes, order) ==
    LET sec == AssignSectors(g, pos, entry_nodes)
        violations == FindViolations(g, sec)
        mods == GenerateModifications(g, sec, order)
    IN IF Cardinality(entry_nodes) < 2 \/ violations = {}
       THEN [modifications |-> <<>>, violations |-> {}, sectors |-> sec]
       ELSE [modifications |-> mods,
             violations |-> ValidateModifications(g, sec, mods),
             sectors |-> sec]

\* the orders in which enforce_constraints may visit the cut edges of a cell
CutOrders(g, pos, entry_nodes) ==
    LET sec == AssignSectors(g, pos, entry_nodes)
    IN Orderings(CutEdges(g, sec, FindViolations(g, sec)))

(***************************************************************************)
(* CityPartitioner: constraint enforcement over the cells                  *)
(***************************************************************************)
\* _find_unreachable_addresses
FindUnreachableAddresses(g, mods, entry_nodes, sec) ==
    LET modified == ApplyReachability(g, mods)
        reachable == UNION {Descendants(modified, e) \cup {e}
                               : e \in entry_nodes \cap GraphNodes(g)}
        withEntry == {s \in 0..(NumSectors - 1) : EntriesOfSector(sec, s) \cap reachable # {}}
        nearest == IF withEntry = {} THEN 0 ELSE SetMin(withEntry)
    IN IF entry_nodes = {} THEN {}
       ELSE {[node_id |-> n, nearest_entry_sector |-> nearest]
                : n \in GraphNodes(g) \ (reachable \cup entry_nodes)}

\* _create_simple_superblock
CreateSimpleSuperblock(cell, index) ==
    [index |-> index,
     entry_points |-> {[node_id |-> n, sector |-> 0] : n \in cell.entry_nodes},
     modifications |-> <<>>,
     constraint_validated |-> TRUE,
     all_addresses_reachable |-> TRUE,
     unreachable_addresses |-> {},
     simple |-> TRUE]

\* what _enforce_cell_constraints hands back: a superblock, or the exception it
\* lets through
Returned(sb) == [raised |-> FALSE, superblock |-> sb]
Propagated == [raised |-> TRUE]

\* _enforce_cell_constraints without its try/except: the exception gets through
EnforceCellConstraintsNoCatch(cell, index, raised, order) ==
    IF Cardinality(cell.entry_nodes) >= 2 /\ cell.interior # {} /\ raised
    THEN Propagated
    ELSE Returned(CreateSimpleSuperblock(cell, index))

\* _enforce_cell_constraints; raised: enforce_constraints raised an exception
EnforceCellConstraints(cell, index, raised, order) ==
    LET r == EnforceConstraints(cell.interior, cell.pos, cell.entry_nodes, order)
        unreachable == FindUnreachableAddresses(cell.interior, r.modifications,
                                                cell.entry_nodes, r.sectors)
    IN IF Cardinality(cell.entry_nodes) < 2
         THEN Returned(CreateSimpleSuperblock(cell, index))
       ELSE IF cell.interior = {} THEN Returned(CreateSimpleSuperblock(cell, index))
       ELSE IF raised THEN Returned(CreateSimpleSuperblock(cell, index))
       ELSE Returned(
            [index |-> index,
             entry_points |-> {[node_id |-> n, sector |-> r.sectors[n]]
                                  : n \in DOMAIN r.sectors},
             modifications |-> r.modifications,
             constraint_validated |-> (r.violations = {}),
             all_addresses_reachable |-> (unreachable = {}),
             unreachable_addresses |-> unreachable,
             simple |-> FALSE])

\* whether _enforce_cell_constraints reaches the call of enforce_constraints
CallsEnforcer(cell) == Cardinality(cell.entry_nodes) >= 2 /\ cell.interior # {}

\* _enforce_all_constraints: one turn of the loop over the cells; an exception that
\* _enforce_cell_constraints lets through ends the loop and the partition
EnforceAllConstraintsStep ==
    /\ enfPc = "enforcing"
    /\ LET i == Len(superblocks) + 1
           cell == cells[i]
       IN \E raised \in BOOLEAN :
          \E order \in CutOrders(cell.interior, cell.pos, cell.entry_nodes) :
             LET got == EnforceCellConstraints(cell, i, raised, order)
             IN /\ enfLog' = IF CallsEnforcer(cell) /\ raised
                                THEN enfLog \cup {i} ELSE enfLog
                /\ IF got.raised
                     THEN superblocks' = superblocks /\ enfPc' = "failed"
                     ELSE /\ superblocks' = Append(superblocks, got.superblock)
                          /\ enfPc' = IF i = Len(cells) THEN "done" ELSE "enforcing"
    /\ UNCHANGED <<cells, applyVars, sizeVars, routeVars, streamVars, laterVars>>

\* The cells of the model: five nodes around the centroid (0, 0); nodes 1..4 lie
\* on the cell boundary (1 and 2 east, 3 north, 4 west), node 5 is the centre.
CellPos == [n \in 1..5 |->
              CASE n = 1 -> <<2, 0>> [] n = 2 -> <<2, 1>> [] n = 3 -> <<0, 2>>
                [] n = 4 -> <<-2, 0>> [] OTHER -> <<0, 0>>]
BoundaryNodes == 1..4
CellStreet == <<(<<1, 5>>), (<<3, 5>>), (<<4, 5>>), (<<2, 5>>), (<<3, 4>>)>>

StreetEdges(p, variant) ==
    CASE variant = "two_way" ->
            {MkEdge(p[1], p[2], 0, "residential", 0, 100),
             MkEdge(p[2], p[1], 0, "residential", 0, 100)}
      [] variant = "one_way" -> {MkEdge(p[1], p[2], 0, "residential", 0, 100)}
      [] variant = "one_way_back" -> {MkEdge(p[2], p[1], 0, "residential", 0, 100)}
      [] variant = "parallel" ->
            {MkEdge(p[1], p[2], 0, "residential", 0, 100),
             MkEdge(p[1], p[2], 1, "residential", 0, 100),
             MkEdge(p[2], p[1], 0, "residential", 0, 100)}
      [] variant = "trunk" ->
            {MkEdge(p[1], p[2], 0, "trunk", 0, 100),
             MkEdge(p[2], p[1], 0, "trunk", 0, 100)}
      [] OTHER -> {}

\* a cell as _create_cells builds it: its entry nodes are the boundary nodes that
\* carry an interior edge (_find_entry_nodes)
MkCell(choice) ==
    LET g == UNION {StreetEdges(CellStreet[i], choice[i]) : i \in DOMAIN choice}
    IN [interior |-> g, pos |-> CellPos, entry_nodes |-> BoundaryNodes \cap GraphNodes(g)]

NumCells == 2
PartStreets == {1, 2}
PartVariants == {"none", "two_way", "trunk"}
PartCells == {MkCell(c) : c \in [PartStreets -> PartVariants]}

RichStreets == 4
RichVariants == {"none", "two_way", "one_way", "parallel", "trunk"}
\* the street of entry node 2 may also be one-way towards the boundary
RichChoices ==
    {c \in [1..RichStreets -> RichVariants \cup {"one_way_back"}] :
        \A i \in 1..RichStreets : c[i] = "one_way_back" => CellStreet[i][1] = 2}
RichCells == {MkCell(c) : c \in RichChoices}

EmptyGraph == {}
IdleEnf == cells = <<>> /\ superblocks = <<>> /\ enfLog = {} /\ enfPc = "idle"
IdleApply == ag = EmptyGraph /\ amods = <<>> /\ aout = [op |-> "none"]
IdleSize == scells = <<>> /\ siter = 0 /\ spc = [at |-> "idle"] /\ sland = [op |-> "none"]
IdleRoute ==
    /\ rgraph = EmptyGraph /\ rpartition = <<>> /\ rmodified = EmptyGraph
    /\ rresult = [op |-> "none"]
IdleStream ==
    /\ squeue = <<>> /\ sholder = [op |-> "none"] /\ swork = [op |-> "none"]
    /\ sgen = "idle" /\ sout = <<>> /\ squiet = 0
IdleEndpoint ==
    /\ partition_cache = <<>> /\ eheap = <<>> /\ ereqs = <<>> /\ eloop = 0
IdleScore == kcands = <<>> /\ kfutures = {} /\ kscored = <<>> /\ kres = [at |-> "idle"]
IdleCache ==
    /\ cservice = [enabled |-> FALSE] /\ cfiles = <<>> /\ cnow = 0
    /\ clast = [op |-> "none"] /\ csets = <<>> /\ cops = 0
IdleLater == IdleEndpoint /\ IdleScore /\ IdleCache
IdleRest == IdleApply /\ IdleSize /\ IdleRoute /\ IdleStream /\ IdleLater

\* the partitioner over several cells
InitPart ==
    /\ cells \in [1..NumCells -> PartCells]
    /\ superblocks = <<>>
    /\ enfLog = {}
    /\ enfPc = "enforcing"
    /\ IdleRest
SpecPart == InitPart /\ [][EnforceAllConstraintsStep]_vars

\* the partitioner over one cell of the richer family
InitCell ==
    /\ cells \in [1..1 -> RichCells]
    /\ superblocks = <<>>
    /\ enfLog = {}
    /\ enfPc = "enforcing"
    /\ IdleRest
SpecCell == InitCell /\ [][EnforceAllConstraintsStep]_vars

(***************************************************************************)
(* Properties of the enforcement                                           *)
(***************************************************************************)
\* the interior of cell i as a vehicle sees it once mods are applied (section 4.10:
\* one-way and closure remove edges, a modal filter marks them vehicle_blocked)
ModifiedInterior(i, mods) == VehicleEdges(get_modified_graph(cells[i].interior, mods))

\* the sector in which each entry node of cell i lies
CellSectors(i) == AssignSectors(cells[i].interior, cells[i].pos, cells[i].entry_nodes)

\* an undirected path joins two entry nodes of cell i that lie in different sectors
CrossSectorPath(i, g) ==
    \E a, b \in DOMAIN CellSectors(i) :
        CellSectors(i)[a] # CellSectors(i)[b] /\ HasUndirectedPath(g, a, b)

\* C1: every superblock whose constraint_validated flag is true has, after its
\* modifications are applied to the cell's interior, no undirected path between
\* two of its entry nodes that lie in different sectors.
C1_ValidatedHasNoCrossSectorPath ==
    \A i \in 1..Len(superblocks) :
        superblocks[i].constraint_validated
            => ~CrossSectorPath(i, ModifiedInterior(i, superblocks[i].modifications))

\* C1, for the superblocks whose flag comes from _validate_modifications (those that
\* are not built by _create_simple_superblock)
C1_EnforcedValidatedHasNoCrossSectorPath ==
    \A i \in 1..Len(superblocks) :
        (superblocks[i].constraint_validated /\ ~superblocks[i].simple)
            => ~CrossSectorPath(i, ModifiedInterior(i, superblocks[i].modifications))

\* the list mods without its k-th element
WithoutIndex(mods, k) == SubSeq(mods, 1, k - 1) \o SubSeq(mods, k + 1, Len(mods))

\* C6: in a validated superblock with a non-empty modification list, removing any
\* single modification and applying the rest brings back a cross-sector path.
C6_ModificationsAreMinimal ==
    \A i \in 1..Len(superblocks) :
        (superblocks[i].constraint_validated /\ superblocks[i].modifications # <<>>)
            => \A k \in 1..Len(superblocks[i].modifications) :
                  CrossSectorPath(i,
                      ModifiedInterior(i, WithoutIndex(superblocks[i].modifications, k)))

\* C9: a cell whose enforce_constraints raised is emitted as a simple superblock
\* (no modifications, constraint_validated true), the failure does not end the
\* partition, and when the loop is done every cell has its superblock.
C9_FailedCellFallsBackAndLoopGoesOn ==
    /\ \A i \in enfLog :
          /\ i <= Len(superblocks)
          /\ superblocks[i].index = i
          /\ superblocks[i].simple
          /\ superblocks[i].modifications = <<>>
          /\ superblocks[i].constraint_validated
    /\ enfPc # "failed"
    /\ enfPc = "done" => Len(superblocks) = Len(cells)
    /\ enfPc = "enforcing" => Len(superblocks) < Len(cells)

\* a cell failed, a later cell was processed all the same, and the partition is whole
C9_Witness ==
    /\ enfPc = "done"
    /\ Len(superblocks) = Len(cells)
    /\ \E i \in enfLog : i < Len(cells) /\ ~superblocks[Len(cells)].simple

\* (u, v, key) of a before (u, v, key) of b, or the same
KeyOrdered(a, b) ==
    \/ a.u < b.u
    \/ a.u = b.u /\ a.v < b.v
    \/ a.u = b.u /\ a.v = b.v /\ a.key <= b.key

\* C14: in every superblock the partitioner emits, the modifications are listed
\* in ascending order of (u, v, key).
C14_ModificationsSorted ==
    \A i \in 1..Len(superblocks) :
        \A j \in 1..(Len(superblocks[i].modifications) - 1) :
            KeyOrdered(superblocks[i].modifications[j], superblocks[i].modifications[j + 1])

\* every interior edge of cell i is residential or of a lower class
AllResidential(i) == \A e \in cells[i].interior : HIERARCHY_MAP(e.highway) >= 6

\* enforce_constraints returned for cell i, whose interior is all residential and
\* joins entry nodes of different sectors
ResidentialAndConnected(i) ==
    /\ ~superblocks[i].simple
    /\ AllResidential(i)
    /\ CrossSectorPath(i, cells[i].interior)

\* C22: for a cell whose interior edges are all residential or lower and whose
\* entry nodes of different sectors are connected through the interior,
\* enforce_constraints returns a non-empty modification list and no residual
\* violation: the superblock is reported with constraint_validated true.
C22_ResidentialCellIsValidated ==
    \A i \in 1..Len(superblocks) :
        ResidentialAndConnected(i)
            => /\ superblocks[i].modifications # <<>>
               /\ superblocks[i].constraint_validated

\* such a cell has been enforced, one of its cut streets being one-way or doubled
C22_Witness ==
    \E i \in 1..Len(superblocks) :
        /\ ResidentialAndConnected(i)
        /\ superblocks[i].constraint_validated
        /\ \E k \in 1..Len(superblocks[i].modifications) :
              LET m == superblocks[i].modifications[k]
              IN \/ Between(cells[i].interior, m.v, m.u) = {}
                 \/ Cardinality(Between(cells[i].interior, m.u, m.v)) > 1

\* the interior nodes of cell i that are no entry node and that no entry node
\* reaches along the directed vehicle edges once mods are applied
NotReachedFromEntries(i, mods) ==
    LET g == ModifiedInterior(i, mods)
        entries == DOMAIN CellSectors(i)
    IN GraphNodes(cells[i].interior)
         \ (cells[i].entry_nodes \cup Reach(DirPairs(g), entries))

\* squared distance in lon/lat space between the nodes a and b of cell i
SquaredDistance(i, a, b) ==
    (cells[i].pos[a][1] - cells[i].pos[b][1]) * (cells[i].pos[a][1] - cells[i].pos[b][1])
    + (cells[i].pos[a][2] - cells[i].pos[b][2]) * (cells[i].pos[a][2] - cells[i].pos[b][2])

\* the sectors of the entry nodes of cell i that are nearest to node n
NearestEntrySectors(i, n) ==
    {CellSectors(i)[e] : e \in {x \in DOMAIN CellSectors(i) :
        \A y \in DOMAIN CellSectors(i) : SquaredDistance(i, x, n) <= SquaredDistance(i, y, n)}}

\* C24: every interior node that is not an entry node and is not reachable from
\* an entry in the modification-applied directed graph is reported as an
\* UnreachableAddress, and its nearest_entry_sector is the sector of the entry
\* node at the smallest squared distance from it.
C24_UnreachableAddressesReported ==
    \A i \in 1..Len(superblocks) :
        /\ {a.node_id : a \in superblocks[i].unreachable_addresses}
              = NotReachedFromEntries(i, superblocks[i].modifications)
        /\ \A a \in superblocks[i].unreachable_addresses :
              a.nearest_entry_sector \in NearestEntrySectors(i, a.node_id)

\* C24, the nodes only: for the superblocks enforce_constraints returned for
C24_EnforcedUnreachableNodesReported ==
    \A i \in 1..Len(superblocks) :
        ~superblocks[i].simple
           => {a.node_id : a \in superblocks[i].unreachable_addresses}
                 = NotReachedFromEntries(i, superblocks[i].modifications)

\* C24, the sector only
C24_NearestSectorReported ==
    \A i \in 1..Len(superblocks) :
        \A a \in superblocks[i].unreachable_addresses :
            a.nearest_entry_sector \in NearestEntrySectors(i, a.node_id)

(***************************************************************************)
(* The modification-applying functions on their own                        *)
(***************************************************************************)
ApplyOps == {"get_modified_graph", "router", "accessibility", "validate", "reachability"}

\* the superblock whose list the router applies
ApplySb == 1

ApplyFn(op, g, mods) ==
    CASE op = "get_modified_graph" -> get_modified_graph(g, mods)
      [] op = "router" -> ApplyRouterMods(g, mods, ApplySb)
      [] op = "accessibility" -> ApplyAccessibility(g, mods)
      [] op = "validate" -> ApplyValidate(g, mods)
      [] op = "reachability" -> ApplyReachability(g, mods)

ApplyEdges ==
    {MkEdge(1, 2, 0, "residential", 1, 1), MkEdge(1, 2, 1, "residential", 2, 1),
     MkEdge(2, 1, 0, "residential", 1, 1), MkEdge(2, 3, 0, "residential", 3, 1),
     MkEdge(3, 2, 0, "residential", 3, 1)}
ApplyMods ==
    {MkMod(1, 2, 0, "modal_filter", "none"), MkMod(1, 2, 0, "one_way", "u_to_v"),
     MkMod(1, 2, 0, "one_way", "v_to_u"), MkMod(2, 1, 0, "one_way", "u_to_v"),
     MkMod(1, 2, 0, "full_closure", "none"), MkMod(3, 2, 0, "modal_filter", "none"),
     MkMod(2, 3, 0, "one_way", "v_to_u")}
MaxMods == 2
ModLists == UNION {[1..n -> ApplyMods] : n \in 0..MaxMods}
Reorderings(mods) ==
    {[i \in 1..Len(mods) |-> mods[p[i]]] : p \in Orderings(1..Len(mods))}

InitApply ==
    /\ ag \in SUBSET ApplyEdges
    /\ amods \in ModLists
    /\ aout = [op |-> "none"]
    /\ IdleEnf /\ IdleSize /\ IdleRoute /\ IdleStream /\ IdleLater

\* the list is applied to the graph
ApplyOnce(op) ==
    /\ aout.op = "none"
    /\ aout' = [op |-> op, phase |-> "once", order |-> amods,
                before |-> ag, result |-> ApplyFn(op, ag, amods)]
    /\ UNCHANGED <<ag, amods, enfVars, sizeVars, routeVars, streamVars, laterVars>>

\* the same list is applied to the graph it produced
ApplyAgain(op) ==
    /\ aout.op = op /\ aout.phase = "once"
    /\ aout' = [aout EXCEPT !.phase = "again", !.before = aout.result,
                            !.result = ApplyFn(op, aout.result, amods)]
    /\ UNCHANGED <<ag, amods, enfVars, sizeVars, routeVars, streamVars, laterVars>>

\* the list is applied to the original graph in another order
ApplyReordered(op) ==
    /\ aout.op = op /\ aout.phase = "once"
    /\ \E other \in Reorderings(amods) :
          aout' = [aout EXCEPT !.phase = "reordered", !.order = other,
                               !.before = aout.result,
                               !.result = ApplyFn(op, ag, other)]
    /\ UNCHANGED <<ag, amods, enfVars, sizeVars, routeVars, streamVars, laterVars>>

NextApply == \E op \in ApplyOps : ApplyOnce(op) \/ ApplyAgain(op) \/ ApplyReordered(op)
SpecApply == InitApply /\ [][NextApply]_vars

\* C7: applying a superblock's modification list a second time, with the
\* enforcer's get_modified_graph or with the router's graph builder, leaves the
\* graph produced by the first application unchanged (edges and marks).
C7_SecondApplicationChangesNothing ==
    (aout.op \in {"get_modified_graph", "router"} /\ aout.phase = "again")
        => aout.result = aout.before

\* a list with a one-way conversion and a modal filter was applied twice by the
\* router's builder, and the first application did change the graph
C7_Witness ==
    /\ aout.op = "router" /\ aout.phase = "again"
    /\ \E i, j \in 1..Len(amods) :
          /\ amods[i].modification_type = "one_way"
          /\ amods[j].modification_type = "modal_filter"
    /\ \E e \in ag : \A f \in aout.result : <<f.u, f.v, f.key>> # <<e.u, e.v, e.key>>
    /\ \E e \in aout.result : e.vehicle_blocked

\* C8: applying the same modifications in another order, with the shared
\* semantics of get_modified_graph, _apply_modifications and the router's
\* builder, yields the same remaining edges with the same vehicle_blocked marks.
C8_OrderDoesNotMatter ==
    (aout.op \in {"get_modified_graph", "accessibility", "router"}
        /\ aout.phase = "reordered")
        => {[u |-> e.u, v |-> e.v, key |-> e.key, vehicle_blocked |-> e.vehicle_blocked] :
                e \in aout.result}
           = {[u |-> e.u, v |-> e.v, key |-> e.key, vehicle_blocked |-> e.vehicle_blocked] :
                e \in aout.before}

\* two different modifications of the same street were applied in both orders,
\* and they removed an edge and marked another
C8_Witness ==
    /\ aout.op = "accessibility" /\ aout.phase = "reordered"
    /\ aout.order # amods
    /\ Len(amods) = 2
    /\ {amods[1].u, amods[1].v} = {amods[2].u, amods[2].v}
    /\ \E e \in ag : \A f \in aout.result : <<f.u, f.v, f.key>> # <<e.u, e.v, e.key>>
    /\ \E e \in aout.result : e.vehicle_blocked

\* the edges (u, v, key) of g that a vehicle may use
VehicleKeys(g) == {<<e.u, e.v, e.key>> : e \in VehicleEdges(g)}

\* the code paths C27 names
AgreeingOps == {"validate", "get_modified_graph", "router", "reachability"}

\* C27: all code paths that apply a modification list agree on the edges a
\* vehicle may use: for the same graph and list the set is the same in the
\* enforcer's validation graph, in get_modified_graph, in the router's
\* modified graph and in the partitioner's reachability graph.
C27_PathsAgreeOnVehicleEdges ==
    (aout.op \in AgreeingOps /\ aout.phase = "once")
        => \A other \in AgreeingOps :
              VehicleKeys(aout.result) = VehicleKeys(ApplyFn(other, ag, amods))

\* the lists the enforcer emits: modal filters and one-way conversions
EnforcerList(mods) ==
    \A i \in 1..Len(mods) : mods[i].modification_type \in {"modal_filter", "one_way"}

\* C27, for the lists the enforcer emits
C27_PathsAgreeOnEnforcerLists ==
    (aout.op \in AgreeingOps /\ aout.phase = "once" /\ EnforcerList(amods))
        => \A other \in AgreeingOps :
              VehicleKeys(aout.result) = VehicleKeys(ApplyFn(other, ag, amods))

(***************************************************************************)
(* The cell size optimizer.  The land is a row of plots; between two       *)
(* neighbouring plots runs either an arterial road or a trunk road that is *)
(* not arterial; every plot holds one residential street.  An arterial     *)
(* road is a tertiary road: "arterial" runs from one edge of the land to   *)
(* the other, "spur" ends inside the land (a dangle for polygonize).       *)
(***************************************************************************)
NumPlots == 4
AreaChoices == {2, 8, 11}
min_area_ha == 6
max_area_ha == 20
target_size_ha == 12
max_iterations == 10

StreetOf(k) == <<2 * k - 1, 2 * k, 0>>
TrunkOf(k) == <<2 * NumPlots + 2 * k - 1, 2 * NumPlots + 2 * k, 0>>

\* _calculate_area_hectares of the polygon covering the plots P
AreaOf(land, P) == SumOver(P, [k \in P |-> land.area[k]])

\* _classify_edges: the non-arterial edges whose centroid lies inside the polygon
\* (a tertiary road, "arterial" or "spur", is in arterial_edges: a boundary edge)
InteriorEdgesOf(land, P) ==
    {StreetOf(k) : k \in P} \cup
    {TrunkOf(k) : k \in {k \in 1..(NumPlots - 1) :
                            k \in P /\ k + 1 \in P /\ land.road[k] = "trunk"}}

MkSizeCell(land, P) ==
    [polygon |-> P, area_hectares |-> AreaOf(land, P),
     interior_edges |-> InteriorEdgesOf(land, P)]

\* _create_cells: polygonize cuts the land along the arterial roads that close a
\* ring with the bbox boundary; a spur closes none
Polygonize(land) ==
    {P \in {lo..hi : lo \in 1..NumPlots, hi \in 1..NumPlots} :
        /\ P # {}
        /\ \A k \in 1..(NumPlots - 1) : (k \in P /\ k + 1 \in P) => land.road[k] # "arterial"
        /\ \A k \in 1..(NumPlots - 1) :
              ((k \in P) # (k + 1 \in P)) => land.road[k] = "arterial"}
CreateCells(land) ==
    {MkSizeCell(land, P) : P \in {Q \in Polygonize(land) :
                                     2 * AreaOf(land, Q) >= 1 /\ AreaOf(land, Q) <= 100}}

\* _build_cell_adjacency: the polygons touch or their boundaries intersect
Adjacent(cs, i) ==
    {j \in 1..Len(cs) :
        /\ j # i
        /\ \E a \in cs[i].polygon, b \in cs[j].polygon : Abs(a - b) <= 1}

\* _merge_cells
MergeCells(land, c1, c2) == MkSizeCell(land, c1.polygon \cup c2.polygon)

\* _merge_small_cells, from index i on
RECURSIVE MergeLoop(_, _, _, _, _, _)
MergeLoop(land, cs, i, skip, new_cells, merged) ==
    IF i > Len(cs) THEN [cells |-> new_cells, merged |-> merged]
    ELSE IF i \in skip THEN MergeLoop(land, cs, i + 1, skip, new_cells, merged)
    ELSE LET cell == cs[i]
             fits == {j \in Adjacent(cs, i) \ skip :
                         cell.area_hectares + cs[j].area_hectares <= max_area_ha}
             size_diff(j) == Abs(cell.area_hectares + cs[j].area_hectares - target_size_ha)
             best_neighbor == SetMin({j \in fits : \A k \in fits : size_diff(j) <= size_diff(k)})
         IN IF cell.area_hectares < min_area_ha /\ fits # {}
              THEN MergeLoop(land, cs, i + 1, skip \cup {i, best_neighbor},
                             Append(new_cells, MergeCells(land, cell, cs[best_neighbor])), TRUE)
              ELSE MergeLoop(land, cs, i + 1, skip, Append(new_cells, cell), merged)

MergeSmallCells(land, cs) == MergeLoop(land, cs, 1, {}, <<>>, FALSE)

\* _split_cell: the trunk roads inside the cell that cut it into two halves of
\* at least min_area_ha; the best balanced one wins, the first on a tie
SplitLinesLowerHalfOnly(land, cell) ==
    {k \in 1..(NumPlots - 1) :
        /\ TrunkOf(k) \in cell.interior_edges
        /\ AreaOf(land, {p \in cell.polygon : p <= k}) >= min_area_ha}
SplitLines(land, cell) ==
    {k \in 1..(NumPlots - 1) :
        /\ TrunkOf(k) \in cell.interior_edges
        /\ AreaOf(land, {p \in cell.polygon : p <= k}) >= min_area_ha
        /\ AreaOf(land, {p \in cell.polygon : p > k}) >= min_area_ha}
Balance(land, cell, k) ==
    Abs(AreaOf(land, {p \in cell.polygon : p <= k}) - AreaOf(land, {p \in cell.polygon : p > k}))
SplitCell(land, cell) ==
    IF SplitLines(land, cell) = {} THEN <<cell>>
    ELSE LET lines == SplitLines(land, cell)
             k == SetMin({a \in lines : \A b \in lines : Balance(land, cell, a) <= Balance(land, cell, b)})
         IN <<MkSizeCell(land, {p \in cell.polygon : p <= k}),
              MkSizeCell(land, {p \in cell.polygon : p > k})>>

\* _split_large_cells
RECURSIVE SplitLoop(_, _, _, _, _)
SplitLoop(land, cs, i, new_cells, split) ==
    IF i > Len(cs) THEN [cells |-> new_cells, split |-> split]
    ELSE LET cell == cs[i]
             split_cells == SplitCell(land, cell)
         IN IF cell.area_hectares > max_area_ha /\ Len(split_cells) > 1
              THEN SplitLoop(land, cs, i + 1, new_cells \o split_cells, TRUE)
              ELSE SplitLoop(land, cs, i + 1, Append(new_cells, cell), split)

SplitLargeCells(land, cs) == SplitLoop(land, cs, 1, <<>>, FALSE)

Lands == [area : [1..NumPlots -> AreaChoices], road : [1..(NumPlots - 1) -> {"arterial", "trunk", "spur"}]]

\* the state after _create_cells, whatever order polygonize returned the cells in
InitSize ==
    /\ sland \in Lands
    /\ scells \in Orderings(CreateCells(sland))
    /\ siter = 0
    /\ spc = [at |-> "merge"]
    /\ IdleEnf /\ IdleApply /\ IdleRoute /\ IdleStream /\ IdleLater

\* _optimize_cell_sizes: the merge pass of one iteration
MergePass ==
    /\ spc.at = "merge"
    /\ LET got == MergeSmallCells(sland, scells)
       IN /\ scells' = got.cells
          /\ spc' = [at |-> "split", changed |-> got.merged]
    /\ UNCHANGED <<siter, sland, enfVars, applyVars, routeVars, streamVars, laterVars>>

\* _optimize_cell_sizes: the split pass of one iteration and the loop's exit test
SplitPass ==
    /\ spc.at = "split"
    /\ LET got == SplitLargeCells(sland, scells)
           changed == spc.changed \/ got.split
       IN /\ scells' = got.cells
          /\ siter' = IF changed THEN siter + 1 ELSE siter
          /\ spc' = IF changed /\ siter + 1 < max_iterations
                      THEN [at |-> "merge"] ELSE [at |-> "done"]
    /\ UNCHANGED <<sland, enfVars, applyVars, routeVars, streamVars, laterVars>>

NextSize == MergePass \/ SplitPass
SpecSize == InitSize /\ [][NextSize]_vars

\* C2: after cell creation and after every merge and split pass, no interior
\* edge (u, v, key) is in the interior-edge set of two different cells.
C2_InteriorEdgesDisjoint ==
    \A i, j \in 1..Len(scells) :
        i # j => scells[i].interior_edges \cap scells[j].interior_edges = {}

\* the cells as _create_cells leaves them are disjoint
C2_CreatedCellsDisjoint ==
    (spc.at = "merge" /\ siter = 0) => C2_InteriorEdgesDisjoint

\* a road between plots k and k + 1 that runs inside the polygon P
RoadsInside(land, P, kind) ==
    {k \in 1..(NumPlots - 1) : k \in P /\ k + 1 \in P /\ land.road[k] = kind}
LowerPart(P, k) == {p \in P : p <= k}
UpperPart(P, k) == {p \in P : p > k}

\* the splits of the polygon P along an interior road fit to be a boundary
\* (hierarchy <= 5 and not arterial: a trunk road) whose parts both reach min_area_ha
AcceptedSplits(land, P) ==
    {k \in RoadsInside(land, P, "trunk") :
        /\ AreaOf(land, LowerPart(P, k)) >= min_area_ha
        /\ AreaOf(land, UpperPart(P, k)) >= min_area_ha}

\* the cells a and b are the chosen split of the cell
IsChosenSplit(land, cell, a, b) ==
    /\ cell.area_hectares > max_area_ha
    /\ \E k \in RoadsInside(land, cell.polygon, "trunk") :
          /\ a.polygon = LowerPart(cell.polygon, k)
          /\ b.polygon = UpperPart(cell.polygon, k)
    /\ a.area_hectares >= min_area_ha
    /\ b.area_hectares >= min_area_ha
    /\ \A k \in AcceptedSplits(land, cell.polygon) :
          Abs(a.area_hectares - b.area_hectares)
             <= Abs(AreaOf(land, LowerPart(cell.polygon, k))
                      - AreaOf(land, UpperPart(cell.polygon, k)))

\* the list new is the list old with some cells replaced by their chosen split,
\* and no cell that has an accepted split is left whole
RECURSIVE SplitsAccepted(_, _, _)
SplitsAccepted(land, old, new) ==
    IF old = <<>> THEN new = <<>>
    ELSE \/ /\ new # <<>>
            /\ Head(new) = Head(old)
            /\ Head(old).area_hectares > max_area_ha
                  => AcceptedSplits(land, Head(old).polygon) = {}
            /\ SplitsAccepted(land, Tail(old), Tail(new))
         \/ /\ Len(new) >= 2
            /\ IsChosenSplit(land, Head(old), new[1], new[2])
            /\ SplitsAccepted(land, Tail(old), Tail(Tail(new)))

C23_SplitAlongTertiary ==
    spc.at = "done" =>
        \A i \in 1..Len(scells) :
            scells[i].area_hectares > max_area_ha =>
                \A k \in RoadsInside(sland, scells[i].polygon, "spur") :
                    \/ AreaOf(sland, LowerPart(scells[i].polygon, k)) < min_area_ha
                    \/ AreaOf(sland, UpperPart(scells[i].polygon, k)) < min_area_ha

(***************************************************************************)
(* The superblock router.  Node coordinates are whole degrees on one       *)
(* parallel and edge lengths are multiples of 111000 m, so every score of  *)
(* the search is exact; scores are kept in units of 55500 m.               *)
(***************************************************************************)
NoPath == <<>>

\* heapq on PriorityNode, which is ordered by f_score alone
RECURSIVE SiftDown(_, _, _, _)
SiftDown(heap, newitem, startpos, pos) ==
    IF pos > startpos /\ newitem.f_score < heap[pos \div 2].f_score
      THEN SiftDown([heap EXCEPT ![pos] = heap[pos \div 2]], newitem, startpos, pos \div 2)
      ELSE [heap EXCEPT ![pos] = newitem]

RECURSIVE SiftUp(_, _, _)
SiftUp(heap, newitem, pos) ==
    LET childpos == 2 * pos
        rightpos == childpos + 1
        smaller == IF rightpos <= Len(heap)
                        /\ ~(heap[childpos].f_score < heap[rightpos].f_score)
                     THEN rightpos ELSE childpos
    IN IF childpos <= Len(heap)
         THEN SiftUp([heap EXCEPT ![pos] = heap[smaller]], newitem, smaller)
         ELSE SiftDown(heap, newitem, 1, pos)

HeapPush(heap, item) == SiftDown(Append(heap, item), item, 1, Len(heap) + 1)

HeapPop(heap) ==
    LET lastelt == heap[Len(heap)]
        rest == SubSeq(heap, 1, Len(heap) - 1)
    IN IF rest = <<>> THEN [item |-> lastelt, heap |-> rest]
       ELSE [item |-> rest[1], heap |-> SiftUp(rest, lastelt, 1)]

\* the street network of the router
RouteNodes == 1..5
RouteX == <<0, 1, 4, 6, 8>>

\* heuristic(node): 111000 m per degree towards the goal
Heuristic(node, goal) == 2 * Abs(RouteX[node] - RouteX[goal])

\* a search that does not look at vehicle_blocked
TraversableThroughFilters(e, allow_interior, restrict_to_superblock, arterial_set) ==
    /\ allow_interior \/ e.osmid \in arterial_set \/ e.highway \in ARTERIAL_TYPES
    /\ \/ restrict_to_superblock = NoSb
       \/ e.superblock_id = NoSb
       \/ e.superblock_id = restrict_to_superblock

\* a search that takes every unblocked edge when interior is not allowed
TraversableWithoutArterialFilter(e, allow_interior, restrict_to_superblock, arterial_set) ==
    /\ ~e.vehicle_blocked
    /\ \/ restrict_to_superblock = NoSb
       \/ e.superblock_id = NoSb
       \/ e.superblock_id = restrict_to_superblock

\* the edge filter of the search
Traversable(e, allow_interior, restrict_to_superblock, arterial_set) ==
    /\ ~e.vehicle_blocked
    /\ allow_interior \/ e.osmid \in arterial_set \/ e.highway \in ARTERIAL_TYPES
    /\ \/ restrict_to_superblock = NoSb
       \/ e.superblock_id = NoSb
       \/ e.superblock_id = restrict_to_superblock

\* length * cost_factor
EdgeCost(e, allow_interior) ==
    e.length * (IF e.highway \in {"primary", "secondary", "tertiary"} THEN 2
                ELSE IF allow_interior THEN 3 ELSE 20)

\* out_edges(node) in the order of the adjacency: by neighbour, then by key
RECURSIVE SortEdges(_)
SortEdges(es) ==
    IF es = {} THEN <<>>
    ELSE LET first == CHOOSE e \in es :
                         \A f \in es : e.v < f.v \/ (e.v = f.v /\ e.key <= f.key)
         IN <<first>> \o SortEdges(es \ {first})
OutEdges(g, node) == SortEdges({e \in g : e.u = node})

\* the loop over the out-edges of the popped node; st holds open_set, came_from
\* and g_score (0 in came_from and -1 in g_score stand for an absent key)
RECURSIVE RelaxEdges(_, _, _, _, _, _, _)
RelaxEdges(es, current, goal, allow_interior, restrict_to_superblock, arterial_set, st) ==
    IF es = <<>> THEN st
    ELSE LET e == Head(es)
             neighbor == e.v
             tentative_g == st.g_score[current] + EdgeCost(e, allow_interior)
             improves == st.g_score[neighbor] = -1 \/ tentative_g < st.g_score[neighbor]
             next ==
                IF Traversable(e, allow_interior, restrict_to_superblock, arterial_set)
                      /\ improves
                  THEN [open_set |-> HeapPush(st.open_set,
                                       [f_score |-> tentative_g + Heuristic(neighbor, goal),
                                        node_id |-> neighbor]),
                        came_from |-> [st.came_from EXCEPT ![neighbor] = current],
                        g_score |-> [st.g_score EXCEPT ![neighbor] = tentative_g]]
                  ELSE st
         IN RelaxEdges(Tail(es), current, goal, allow_interior, restrict_to_superblock,
                       arterial_set, next)

RECURSIVE ReconstructPath(_, _, _)
ReconstructPath(came_from, node, path) ==
    IF came_from[node] = 0 THEN path
    ELSE ReconstructPath(came_from, came_from[node], <<came_from[node]>> \o path)

RECURSIVE AstarLoop(_, _, _, _, _, _)
AstarLoop(g, goal, allow_interior, restrict_to_superblock, arterial_set, st) ==
    IF st.open_set = <<>> THEN NoPath
    ELSE LET popped == HeapPop(st.open_set)
             current == popped.item.node_id
         IN IF current = goal THEN ReconstructPath(st.came_from, goal, <<goal>>)
            ELSE AstarLoop(g, goal, allow_interior, restrict_to_superblock, arterial_set,
                           RelaxEdges(OutEdges(g, current), current, goal, allow_interior,
                                      restrict_to_superblock, arterial_set,
                                      [st EXCEPT !.open_set = popped.heap]))

\* SuperblockRouter._astar on the modified graph g
Astar(g, arterial_set, start, goal, allow_interior, restrict_to_superblock) ==
    AstarLoop(g, goal, allow_interior, restrict_to_superblock, arterial_set,
              [open_set |-> <<[f_score |-> Heuristic(start, goal), node_id |-> start]>>,
               came_from |-> [n \in RouteNodes |-> 0],
               g_score |-> [n \in RouteNodes |-> IF n = start THEN 0 ELSE -1]])

\* SuperblockRouter._build_modified_graph
RECURSIVE BuildModifiedGraph(_, _)
BuildModifiedGraph(g, sbs) ==
    IF sbs = <<>> THEN g
    ELSE BuildModifiedGraph(ApplyRouterMods(g, Head(sbs).modifications, Head(sbs).id),
                            Tail(sbs))

\* _find_nearest_node: the first node at the least squared distance
FindNearestNode(x) ==
    SetMin({n \in RouteNodes :
              \A m \in RouteNodes : (RouteX[n] - x) * (RouteX[n] - x)
                                      <= (RouteX[m] - x) * (RouteX[m] - x)})

\* _find_containing_superblock: the first superblock whose polygon contains the
\* point; NoSb when there is none
Contains(sb, x) == sb.west < x /\ x < sb.east
FindContainingSuperblock(sbs, x) ==
    IF \E i \in 1..Len(sbs) : Contains(sbs[i], x)
      THEN sbs[SetMin({i \in 1..Len(sbs) : Contains(sbs[i], x)})].id
      ELSE NoSb

\* _find_nearest_arterial_from_node: the first entry point, of any superblock,
\* at the least squared distance; 0 when there is no entry point
AllEntryPoints(sbs) == Flatten([i \in 1..Len(sbs) |-> sbs[i].entry_points])
FindNearestArterialFromNode(sbs, node) ==
    LET eps == AllEntryPoints(sbs)
        dist(i) == (RouteX[eps[i]] - RouteX[node]) * (RouteX[eps[i]] - RouteX[node])
    IN IF eps = <<>> THEN 0
       ELSE eps[SetMin({i \in 1..Len(eps) : \A j \in 1..Len(eps) : dist(i) <= dist(j)})]

\* _deduplicate_path
RECURSIVE DeduplicatePath(_)
DeduplicatePath(path) ==
    IF Len(path) <= 1 THEN path
    ELSE LET front == DeduplicatePath(SubSeq(path, 1, Len(path) - 1))
         IN IF path[Len(path)] = front[Len(front)] THEN front
            ELSE Append(front, path[Len(path)])

Failure(reason) == [success |-> FALSE, path |-> NoPath, blocked_reason |-> reason,
                    superblocks_traversed |-> <<>>]
Success(path, traversed) == [success |-> TRUE, path |-> path, blocked_reason |-> "",
                             superblocks_traversed |-> traversed]
ButLast(path) == SubSeq(path, 1, Len(path) - 1)

\* _route_within_superblock
RouteWithinSuperblock(g, part, origin_node, dest_node, sb) ==
    LET path == Astar(g, part.arterial_network, origin_node, dest_node, TRUE, NoSb)
    IN IF path = NoPath THEN Failure("No path found within superblock")
       ELSE Success(path, <<sb>>)

\* _route_direct
RouteDirect(g, part, origin_node, dest_node) ==
    LET path == Astar(g, part.arterial_network, origin_node, dest_node, TRUE, NoSb)
    IN IF path = NoPath THEN Failure("No path found") ELSE Success(path, <<>>)

\* _route_via_arterials
RouteViaArterials(g, part, origin_node, dest_node, origin_sb, dest_sb) ==
    LET art == part.arterial_network
        arterial_exit == IF origin_sb # NoSb
                           THEN FindNearestArterialFromNode(part.superblocks, origin_node)
                           ELSE origin_node
        exit_path == IF origin_sb # NoSb
                       THEN Astar(g, art, origin_node, arterial_exit, TRUE, origin_sb)
                       ELSE <<origin_node>>
        arterial_entry == IF dest_sb # NoSb
                            THEN FindNearestArterialFromNode(part.superblocks, dest_node)
                            ELSE dest_node
        traversed == (IF origin_sb # NoSb THEN <<origin_sb>> ELSE <<>>) \o
                     (IF dest_sb # NoSb /\ dest_sb # origin_sb THEN <<dest_sb>> ELSE <<>>)
        first_try == Astar(g, art, arterial_exit, arterial_entry, FALSE, NoSb)
        arterial_path == IF arterial_exit = arterial_entry THEN <<arterial_exit>>
                         ELSE IF first_try # NoPath THEN first_try
                         ELSE Astar(g, art, arterial_exit, arterial_entry, TRUE, NoSb)
        entry_path == IF dest_sb # NoSb /\ arterial_entry # dest_node
                        THEN Astar(g, art, arterial_entry, dest_node, TRUE, dest_sb)
                        ELSE IF arterial_entry # dest_node THEN <<dest_node>> ELSE <<>>
        full_path == IF entry_path # <<>>
                       THEN ButLast(exit_path) \o arterial_path \o Tail(entry_path)
                       ELSE ButLast(exit_path) \o arterial_path
    IN IF origin_sb # NoSb /\ arterial_exit = 0
         THEN Failure("Cannot exit origin superblock to arterial")
       ELSE IF origin_sb # NoSb /\ exit_path = NoPath
         THEN Failure("No path from origin to arterial network")
       ELSE IF dest_sb # NoSb /\ arterial_entry = 0
         THEN Failure("Cannot enter destination superblock from arterial")
       ELSE IF arterial_path = NoPath
         THEN Failure("No arterial route between origin and destination areas")
       ELSE IF dest_sb # NoSb /\ arterial_entry # dest_node /\ entry_path = NoPath
         THEN Failure("No path from arterial to destination")
       ELSE Success(DeduplicatePath(full_path), traversed)

\* SuperblockRouter.route for a request at longitudes ox and dx
RouteRequest(g, part, ox, dx, respect_superblocks) ==
    LET origin_node == FindNearestNode(ox)
        dest_node == FindNearestNode(dx)
        origin_sb == FindContainingSuperblock(part.superblocks, ox)
        dest_sb == FindContainingSuperblock(part.superblocks, dx)
    IN IF origin_node = dest_node THEN Success(NoPath, <<>>)
       ELSE IF respect_superblocks
         THEN IF origin_sb # NoSb /\ dest_sb # NoSb /\ origin_sb = dest_sb
                THEN RouteWithinSuperblock(g, part, origin_node, dest_node, origin_sb)
                ELSE RouteViaArterials(g, part, origin_node, dest_node, origin_sb, dest_sb)
         ELSE RouteDirect(g, part, origin_node, dest_node)

\* The city of the router: five nodes on one parallel; superblock 1 covers the
\* longitudes (0, 4) and superblock 2 the longitudes (4, 8); streets 1-2, 2-3, 3-4
\* and 4-5 are residential, roads 1-3 and 3-5 are primary or primary_link.
RouteStreet(a, b, hw, osmid, variant) ==
    LET len == Abs(RouteX[a] - RouteX[b])
    IN CASE variant = "two_way" ->
               {MkEdge(a, b, 0, hw, osmid, len), MkEdge(b, a, 0, hw, osmid, len)}
         [] variant = "forward" -> {MkEdge(a, b, 0, hw, osmid, len)}
         [] variant = "trunk" ->
               {MkEdge(a, b, 0, "trunk", osmid, len), MkEdge(b, a, 0, "trunk", osmid, len)}
         [] variant = "link" ->
               {MkEdge(a, b, 0, "primary_link", osmid, len),
                MkEdge(b, a, 0, "primary_link", osmid, len)}
         [] OTHER -> {}

StreetVariants ==
    <<{"two_way", "none"}, {"two_way", "forward", "none"},
      {"two_way", "forward", "none", "trunk"}, {"two_way", "trunk"}>>
RoadVariants == {"two_way", "forward", "none", "link"}
RouteGraphs ==
    {RouteStreet(1, 2, "residential", 12, c[1]) \cup RouteStreet(2, 3, "residential", 23, c[2])
       \cup RouteStreet(3, 4, "residential", 34, c[3])
       \cup RouteStreet(4, 5, "residential", 45, c[4])
       \cup RouteStreet(1, 3, "primary", 13, r[1]) \cup RouteStreet(3, 5, "primary", 35, r[2])
     : c \in {f \in [1..4 -> UNION {StreetVariants[i] : i \in 1..4}] :
                \A i \in 1..4 : f[i] \in StreetVariants[i]},
       r \in [1..2 -> RoadVariants]}

\* _identify_arterials by road type, and CityPartition.arterial_network
ArterialEdges(g) == {e \in g : e.highway \in ARTERIAL_TYPES}
ArterialNetwork(g) == {e.osmid : e \in ArterialEdges(g)}

\* _classify_edges: the non-arterial edges whose centroid lies inside the polygon
RouteInterior(g, west, east) ==
    {e \in g \ ArterialEdges(g) :
        2 * west < RouteX[e.u] + RouteX[e.v] /\ RouteX[e.u] + RouteX[e.v] < 2 * east}

\* the cell of the polygon (west, east), as _create_cells builds it
RouteCell(g, west, east) ==
    LET interior == RouteInterior(g, west, east)
    IN [interior |-> interior,
        pos |-> [n \in RouteNodes |-> <<2 * RouteX[n] - (west + east), 0>>],
        entry_nodes |-> {n \in GraphNodes(interior) : RouteX[n] \in {west, east}}]

\* EnforcedSuperblock.entry_points: by sector, as entry_points_by_sector lists them
RECURSIVE EntrySeq(_)
EntrySeq(eps) ==
    IF eps = {} THEN <<>>
    ELSE LET first == CHOOSE e \in eps :
                         \A f \in eps : e.sector < f.sector
                                          \/ (e.sector = f.sector /\ e.node_id <= f.node_id)
         IN <<first.node_id>> \o EntrySeq(eps \ {first})

\* the EnforcedSuperblock the router reads
RouteSuperblock(sb, west, east) ==
    [id |-> sb.index, west |-> west, east |-> east,
     entry_points |-> EntrySeq(sb.entry_points), modifications |-> sb.modifications]

RoutePolygons == <<(<<0, 4>>), (<<4, 8>>)>>

\* the partitions the partitioner returns for the graph g
RoutePartitions(g) ==
    LET cell(i) == RouteCell(g, RoutePolygons[i][1], RoutePolygons[i][2])
        orders(i) == CutOrders(cell(i).interior, cell(i).pos, cell(i).entry_nodes)
    IN {[superblocks |->
            [i \in 1..2 |->
                RouteSuperblock(EnforceCellConstraints(cell(i), i, FALSE, o[i]).superblock,
                                RoutePolygons[i][1], RoutePolygons[i][2])],
         arterial_network |-> ArterialNetwork(g)]
        : o \in {f \in [1..2 -> UNION {orders(1), orders(2)}] :
                    f[1] \in orders(1) /\ f[2] \in orders(2)}}

RequestX == {0, 1, 4, 5, 6, 8}

\* the router as SuperblockRouter.__init__ leaves it
InitRoute ==
    /\ rgraph \in RouteGraphs
    /\ rpartition \in RoutePartitions(rgraph)
    /\ rmodified = BuildModifiedGraph(rgraph, rpartition.superblocks)
    /\ rresult = [op |-> "none"]
    /\ IdleEnf /\ IdleApply /\ IdleSize /\ IdleStream /\ IdleLater

\* compute_route: the router built for the request answers it
Route(ox, dx, respect_superblocks) ==
    /\ rresult.op = "none"
    /\ rresult' = [op |-> "route", origin |-> ox, destination |-> dx,
                   respect_superblocks |-> respect_superblocks,
                   result |-> RouteRequest(rmodified, rpartition, ox, dx, respect_superblocks)]
    /\ UNCHANGED <<rgraph, rpartition, rmodified, enfVars, applyVars, sizeVars, streamVars, laterVars>>

NextRoute == \E ox \in RequestX, dx \in RequestX, respect \in BOOLEAN : Route(ox, dx, respect)
SpecRoute == InitRoute /\ [][NextRoute]_vars

Routed == rresult.op = "route" /\ rresult.result.success
RoutePath == rresult.result.path
Hops == 1..(Len(RoutePath) - 1)

\* C3: on a successful route, in either mode, no edge between two consecutive
\* nodes of the path is vehicle_blocked, and such an edge exists.
C3_NoBlockedEdgeTraversed ==
    Routed =>
        \A i \in Hops :
            /\ Between(rmodified, RoutePath[i], RoutePath[i + 1]) # {}
            /\ \A e \in Between(rmodified, RoutePath[i], RoutePath[i + 1]) : ~e.vehicle_blocked

\* a route that respects the superblocks leaves a node from which a filtered edge
\* starts
C3_Witness ==
    /\ Routed /\ rresult.respect_superblocks
    /\ \E i \in Hops : \E e \in rmodified : e.u = RoutePath[i] /\ e.vehicle_blocked

\* the superblocks whose interior the edges u -> v belong to
InteriorOwners(u, v) ==
    {rpartition.superblocks[i].id :
        i \in {j \in 1..Len(rpartition.superblocks) :
                 Between(RouteInterior(rgraph, rpartition.superblocks[j].west,
                                       rpartition.superblocks[j].east), u, v) # {}}}

\* C4: a successful route that respects the superblocks traverses no interior
\* edge of a superblock other than the ones containing origin and destination.
C4_NoTransitOfOtherSuperblocks ==
    (Routed /\ rresult.respect_superblocks) =>
        \A i \in Hops :
            InteriorOwners(RoutePath[i], RoutePath[i + 1]) \subseteq
                {FindContainingSuperblock(rpartition.superblocks, rresult.origin),
                 FindContainingSuperblock(rpartition.superblocks, rresult.destination)}

\* no edge that a vehicle may use starts or ends at the node
Isolated(n) == \A e \in VehicleEdges(rmodified) : e.u # n /\ e.v # n

\* C5: when the interior-allowed search reaches the destination and neither
\* endpoint is isolated, route() with respect_superblocks=true succeeds.
C5_RoutingCompleteness ==
    (/\ rresult.op = "route" /\ rresult.respect_superblocks
     /\ Astar(rmodified, rpartition.arterial_network, FindNearestNode(rresult.origin),
              FindNearestNode(rresult.destination), TRUE, NoSb) # NoPath
     /\ ~Isolated(FindNearestNode(rresult.origin))
     /\ ~Isolated(FindNearestNode(rresult.destination)))
        => rresult.result.success

\* the entry points of superblock sb that are nearest to the node
OwnNearestEntries(sbs, sb, node) ==
    LET own == UNION {{sbs[i].entry_points[k] : k \in 1..Len(sbs[i].entry_points)}
                         : i \in {j \in 1..Len(sbs) : sbs[j].id = sb}}
        dist(n) == (RouteX[n] - RouteX[node]) * (RouteX[n] - RouteX[node])
    IN {n \in own : \A m \in own : dist(n) <= dist(m)}

\* C26: when respect_superblocks is true and the origin lies in a superblock
\* that is not the destination's, the first leg of the route goes from the
\* origin node to the nearest entry point of the origin's own superblock.
C26_FirstLegToOwnEntry ==
    LET origin_node == FindNearestNode(rresult.origin)
        dest_node == FindNearestNode(rresult.destination)
        origin_sb == FindContainingSuperblock(rpartition.superblocks, rresult.origin)
        dest_sb == FindContainingSuperblock(rpartition.superblocks, rresult.destination)
        own == OwnNearestEntries(rpartition.superblocks, origin_sb, origin_node)
    IN (/\ rresult.op = "route" /\ rresult.respect_superblocks
        /\ origin_node # dest_node
        /\ origin_sb # NoSb /\ origin_sb # dest_sb
        /\ own # {})
          => /\ FindNearestArterialFromNode(rpartition.superblocks, origin_node) \in own
             /\ rresult.result.success => \E i \in 1..Len(RoutePath) : RoutePath[i] \in own

\* C26, for the routes that succeed: the path visits a nearest entry point of
\* the origin's own superblock
C26_SuccessfulRouteVisitsOwnEntry ==
    LET origin_node == FindNearestNode(rresult.origin)
        origin_sb == FindContainingSuperblock(rpartition.superblocks, rresult.origin)
        dest_sb == FindContainingSuperblock(rpartition.superblocks, rresult.destination)
        own == OwnNearestEntries(rpartition.superblocks, origin_sb, origin_node)
    IN (/\ Routed /\ rresult.respect_superblocks
        /\ origin_node # FindNearestNode(rresult.destination)
        /\ origin_sb # NoSb /\ origin_sb # dest_sb
        /\ own # {})
          => \E i \in 1..Len(RoutePath) : RoutePath[i] \in own

(***************************************************************************)
(* The search on its own: _astar for every start, goal and pair of flags   *)
(***************************************************************************)
\* one call of _astar on the router's modified graph
AstarSearch(start, goal, allow_interior, restrict_to_superblock) ==
    /\ rresult.op = "none"
    /\ rresult' = [op |-> "astar", start |-> start, goal |-> goal,
                   allow_interior |-> allow_interior,
                   restrict_to_superblock |-> restrict_to_superblock,
                   path |-> Astar(rmodified, rpartition.arterial_network, start, goal,
                                  allow_interior, restrict_to_superblock)]
    /\ UNCHANGED <<rgraph, rpartition, rmodified, enfVars, applyVars, sizeVars, streamVars, laterVars>>

NextAstar ==
    \E start \in RouteNodes, goal \in RouteNodes, allow \in BOOLEAN,
       restrict \in {NoSb} \cup {rpartition.superblocks[i].id : i \in 1..Len(rpartition.superblocks)} :
        AstarSearch(start, goal, allow, restrict)
SpecAstar == InitRoute /\ [][NextAstar]_vars

\* the edges the search of rresult may follow: not vehicle_blocked and let through
\* by the allow_interior and restrict_to_superblock filters
SearchEdges ==
    {e \in rmodified :
        /\ ~e.vehicle_blocked
        /\ \/ rresult.allow_interior
           \/ e.osmid \in rpartition.arterial_network
           \/ e.highway \in ARTERIAL_TYPES
        /\ \/ rresult.restrict_to_superblock = NoSb
           \/ e.superblock_id = NoSb
           \/ e.superblock_id = rresult.restrict_to_superblock}

\* C25: in the A* search every traversable edge costs length * f, f being 1.0
\* for every arterial class (primary, secondary, tertiary and their _link
\* variants), 1.5 for any other class when interior is allowed and 10.0 when
\* it is not (costs are in units of half a length: 2, 3 and 20).
C25_EdgeCostByClass ==
    rresult.op = "astar" =>
        \A e \in SearchEdges :
            EdgeCost(e, rresult.allow_interior)
               = e.length * (IF e.highway \in ARTERIAL_TYPES THEN 2
                             ELSE IF rresult.allow_interior THEN 3 ELSE 20)

C28_WitnessNone ==
    /\ rresult.op = "astar"
    /\ rresult.path = NoPath
    /\ rresult.goal \in Reach(UndirPairs(rmodified), {rresult.start})

(***************************************************************************)
(* POST /partition/stream: the worker thread and the generator             *)
(***************************************************************************)
MaxStreamCells == 2

Progress(stage, percent) == [type |-> "progress", stage |-> stage, percent |-> percent]

\* the progress events CityPartitioner.partition reports for total_cells cells
ProgressPlan(total_cells) ==
    <<Progress("network", 0), Progress("network", 20), Progress("arterials", 25),
      Progress("arterials", 40), Progress("cells", 45), Progress("cells", 55),
      Progress("cells", 60), Progress("cells", 70), Progress("constraints", 75)>>
    \o [i \in 1..total_cells |->
           Progress("constraints", 75 + ((20 * (i - 1)) \div total_cells))]
    \o <<Progress("constraints", 95), Progress("complete", 100)>>

\* the silence after which a heartbeat is due, and where the model stops counting
HeartbeatSeconds == 15
QuietCap == HeartbeatSeconds + 1

\* truthiness of result_holder["result"] and result_holder["error"]
Truthy(x) == x \notin {"None", ""}

InitStream ==
    /\ squeue = <<>>
    /\ sholder = [result |-> "None", error |-> "None", done |-> FALSE]
    /\ swork \in {[pc |-> "new", callback |-> cb, total_cells |-> n, left |-> ProgressPlan(n)]
                    : cb \in BOOLEAN, n \in 0..MaxStreamCells}
    /\ sgen = "created"
    /\ sout = <<>>
    /\ squiet = 0
    /\ IdleEnf /\ IdleApply /\ IdleSize /\ IdleRoute /\ IdleLater

\* generate(): thread.start()
GenStart ==
    /\ sgen = "created"
    /\ sgen' = "loop"
    /\ swork' = [swork EXCEPT !.pc = "running"]
    /\ UNCHANGED <<squiet, squeue, sholder, sout, enfVars, applyVars, sizeVars, routeVars, laterVars>>

\* _report_progress: progress_callback puts the event on the queue, when the
\* request asked for one (enforce_constraints)
WorkerReport ==
    /\ swork.pc = "running" /\ swork.left # <<>>
    /\ squeue' = IF swork.callback THEN Append(squeue, Head(swork.left)) ELSE squeue
    /\ swork' = [swork EXCEPT !.left = Tail(swork.left)]
    /\ UNCHANGED <<squiet, sholder, sgen, sout, enfVars, applyVars, sizeVars, routeVars, laterVars>>

\* run_in_thread: run_partition_sync returned
WorkerReturn ==
    /\ swork.pc = "running" /\ swork.left = <<>>
    /\ sholder' = [sholder EXCEPT !.result = "partition"]
    /\ swork' = [swork EXCEPT !.pc = "finally"]
    /\ UNCHANGED <<squiet, squeue, sgen, sout, enfVars, applyVars, sizeVars, routeVars, laterVars>>

\* run_in_thread: run_partition_sync raised; str(e) may be empty
WorkerRaise(message) ==
    /\ swork.pc = "running"
    /\ sholder' = [sholder EXCEPT !.error = message]
    /\ swork' = [swork EXCEPT !.pc = "finally"]
    /\ UNCHANGED <<squiet, squeue, sgen, sout, enfVars, applyVars, sizeVars, routeVars, laterVars>>

\* run_in_thread: finally
WorkerFinally ==
    /\ swork.pc = "finally"
    /\ sholder' = [sholder EXCEPT !.done = TRUE]
    /\ swork' = [swork EXCEPT !.pc = "finished"]
    /\ UNCHANGED <<squiet, squeue, sgen, sout, enfVars, applyVars, sizeVars, routeVars, laterVars>>

\* a generator that skips the drain loop
GenTestDoneWithoutDrain ==
    /\ sgen = "loop"
    /\ sgen' = IF sholder.done THEN "terminal" ELSE "get"
    /\ UNCHANGED <<squiet, squeue, sholder, swork, sout, enfVars, applyVars, sizeVars, routeVars, laterVars>>

\* generate(): while not result_holder["done"]
GenTestDone ==
    /\ sgen = "loop"
    /\ sgen' = IF sholder.done THEN "drain" ELSE "get"
    /\ UNCHANGED <<squiet, squeue, sholder, swork, sout, enfVars, applyVars, sizeVars, routeVars, laterVars>>

\* generate(): get_nowait in the polling loop; on queue.Empty it sleeps 0.1 s,
\* over which the clock may reach the next whole second
GenGet ==
    /\ sgen = "get"
    /\ IF squeue # <<>>
         THEN sout' = Append(sout, Head(squeue)) /\ squeue' = Tail(squeue) /\ squiet' = 0
         ELSE /\ UNCHANGED <<sout, squeue>>
              /\ squiet' \in {squiet, MinOf(squiet + 1, QuietCap)}
    /\ sgen' = "loop"
    /\ UNCHANGED <<sholder, swork, enfVars, applyVars, sizeVars, routeVars, laterVars>>

\* generate(): drain remaining progress
GenDrain ==
    /\ sgen = "drain"
    /\ IF squeue # <<>>
         THEN /\ sout' = Append(sout, Head(squeue)) /\ squeue' = Tail(squeue)
              /\ sgen' = sgen /\ squiet' = 0
         ELSE sgen' = "terminal" /\ UNCHANGED <<sout, squeue, squiet>>
    /\ UNCHANGED <<sholder, swork, enfVars, applyVars, sizeVars, routeVars, laterVars>>

\* generate(): the terminal record
GenTerminal ==
    /\ sgen = "terminal"
    /\ sout' = Append(sout,
                 IF Truthy(sholder.error)
                   THEN [type |-> "error", message |-> sholder.error]
                 ELSE IF Truthy(sholder.result) THEN [type |-> "complete"]
                 ELSE [type |-> "error", message |-> "Partition completed with no result"])
    /\ sgen' = "finished"
    /\ squiet' = 0
    /\ UNCHANGED <<squeue, sholder, swork, enfVars, applyVars, sizeVars, routeVars, laterVars>>

NextStream ==
    \/ GenStart \/ WorkerReport \/ WorkerReturn
    \/ \E message \in {"", "failed"} : WorkerRaise(message)
    \/ WorkerFinally \/ GenTestDone \/ GenGet \/ GenDrain \/ GenTerminal
SpecStream == InitStream /\ [][NextStream]_vars

\* the events the worker has put on the queue so far
Enqueued ==
    IF swork.callback
      THEN SubSeq(ProgressPlan(swork.total_cells), 1,
                  Len(ProgressPlan(swork.total_cells)) - Len(swork.left))
      ELSE <<>>
Terminals == {i \in 1..Len(sout) : sout[i].type \in {"complete", "error"}}
IsProgress(r) == r.type = "progress"

\* C10: the stream is progress records followed by at most one terminal record,
\* which is the last record and exactly one once the generator has finished;
\* the records delivered and those still queued are the events the worker
\* enqueued, in order, and none is still queued when the terminal record is out.
C10_ProgressThenOneTerminal ==
    /\ Cardinality(Terminals) <= 1
    /\ \A i \in Terminals : i = Len(sout)
    /\ sgen = "finished" => Cardinality(Terminals) = 1
    /\ SelectSeq(sout, IsProgress) \o squeue = Enqueued
    /\ Terminals # {} => (squeue = <<>> /\ swork.pc = "finished")

\* a failed partition: some progress was delivered, then the error record
C10_Witness ==
    /\ sgen = "finished"
    /\ Len(sout) >= 3
    /\ sout[Len(sout)].type = "error"
    /\ sout[Len(sout) - 1].type = "progress"
    /\ Len(swork.left) > 0

\* C16: while the streaming request is running, the stream never stays without a
\* record for longer than the 15 s after which a heartbeat is due.
C16_HeartbeatWhenQuiet == sgen \in {"loop", "get"} => squiet <= HeartbeatSeconds

(***************************************************************************)
(* run_partition_sync: the partitioner with and without progress_callback. *)
(* The request's enforce_constraints decides which of the two it is built  *)
(* with; the queue is the progress_queue of the request.                   *)
(***************************************************************************)
\* run_partition_sync: progress_callback=progress_callback if enforce_constraints
\* else None
CallbackFor(enforce_constraints) ==
    IF enforce_constraints THEN "progress_callback" ELSE "None"

\* _report_progress: if self.progress_callback, the callback puts the event
ReportProgress(progress_callback, queue, event) ==
    IF Truthy(progress_callback) THEN Append(queue, event) ELSE queue

\* the state one turn of the loop leaves: a raised exception ends the loop, a
\* superblock is appended; logged: enforce_constraints raised in this turn
TurnOf(queue, sbs, got, logged) ==
    [queue |-> queue,
     raised |-> got.raised,
     logged |-> logged,
     superblocks |-> IF got.raised THEN sbs ELSE Append(sbs, got.superblock)]

\* a partitioner that enforces the constraints only when it has a callback
EnforceAllConstraintsTurnOnlyWithCallback(progress_callback, queue, cs, sbs, raised, order) ==
    LET i == Len(sbs) + 1
        got == IF Truthy(progress_callback)
                 THEN EnforceCellConstraints(cs[i], i, raised, order)
                 ELSE Returned(CreateSimpleSuperblock(cs[i], i))
    IN TurnOf(ReportProgress(progress_callback, queue,
                 Progress("constraints", 75 + ((20 * (i - 1)) \div Len(cs)))),
              sbs, got, CallsEnforcer(cs[i]) /\ raised)

\* _enforce_all_constraints: one turn of the loop over the cells cs with the
\* superblocks sbs built so far: the progress report, then the cell
EnforceAllConstraintsTurn(progress_callback, queue, cs, sbs, raised, order) ==
    LET i == Len(sbs) + 1
        got == EnforceCellConstraints(cs[i], i, raised, order)
    IN TurnOf(ReportProgress(progress_callback, queue,
                 Progress("constraints", 75 + ((20 * (i - 1)) \div Len(cs)))),
              sbs, got, CallsEnforcer(cs[i]) /\ raised)

\* every way the next turn of the loop may go for a partitioner with this callback
TurnOutcomes(progress_callback) ==
    LET cell == cells[Len(superblocks) + 1]
    IN {EnforceAllConstraintsTurn(progress_callback, squeue, cells, superblocks, raised, order)
          : raised \in BOOLEAN,
            order \in CutOrders(cell.interior, cell.pos, cell.entry_nodes)}

\* what partition() has reported when it calls _enforce_all_constraints
ReportedBeforeConstraints(progress_callback) ==
    IF Truthy(progress_callback) THEN SubSeq(ProgressPlan(0), 1, 9) ELSE <<>>

\* run_partition_sync at the call of _enforce_all_constraints, for either value of
\* the flag
InitFlag ==
    /\ cells \in [1..NumCells -> PartCells]
    /\ superblocks = <<>>
    /\ enfLog = {}
    /\ enfPc = "enforcing"
    /\ swork \in {[op |-> "partition", enforce_constraints |-> b, pc |-> "running"]
                    : b \in BOOLEAN}
    /\ squeue = ReportedBeforeConstraints(CallbackFor(swork.enforce_constraints))
    /\ sholder = [op |-> "none"] /\ sgen = "idle" /\ sout = <<>> /\ squiet = 0
    /\ IdleApply /\ IdleSize /\ IdleRoute /\ IdleLater

\* _enforce_all_constraints of the partitioner run_partition_sync built: one turn
PartitionTurn ==
    /\ swork.op = "partition" /\ enfPc = "enforcing"
    /\ \E o \in TurnOutcomes(CallbackFor(swork.enforce_constraints)) :
          /\ squeue' = o.queue
          /\ superblocks' = o.superblocks
          /\ enfLog' = IF o.logged THEN enfLog \cup {Len(superblocks) + 1} ELSE enfLog
          /\ enfPc' = IF o.raised THEN "failed"
                      ELSE IF Len(o.superblocks) = Len(cells) THEN "done"
                      ELSE "enforcing"
    /\ UNCHANGED <<cells, swork, sholder, sgen, sout, squiet,
                   applyVars, sizeVars, routeVars, laterVars>>

\* partition() after _enforce_all_constraints: the last two reports and the result
PartitionReturns ==
    /\ swork.op = "partition" /\ swork.pc = "running" /\ enfPc = "done"
    /\ squeue' = ReportProgress(CallbackFor(swork.enforce_constraints),
                    ReportProgress(CallbackFor(swork.enforce_constraints), squeue,
                                   Progress("constraints", 95)),
                    Progress("complete", 100))
    /\ swork' = [swork EXCEPT !.pc = "returned"]
    /\ UNCHANGED <<enfVars, sholder, sgen, sout, squiet,
                   applyVars, sizeVars, routeVars, laterVars>>

NextFlag == PartitionTurn \/ PartitionReturns
SpecFlag == InitFlag /\ [][NextFlag]_vars

\* C30: the enforce_constraints flag does not change the computed partition: every
\* step of a run leaves the superblocks, with their modifications, as a step of
\* the run with the other value of the flag on the same cells can leave them, and
\* ends the loop failed, finished or unfinished alike; outside the loop over the
\* cells no step touches the superblocks.
C30_FlagDoesNotChangePartition ==
    [][IF enfPc = "enforcing"
         THEN \E o \in TurnOutcomes(CallbackFor(~swork.enforce_constraints)) :
                 /\ o.superblocks = superblocks'
                 /\ o.raised = (enfPc' = "failed")
         ELSE superblocks' = superblocks]_vars

\* the flag only decides whether progress events are emitted
C30_ProgressOnlyWithFlag == (squeue # <<>>) = swork.enforce_constraints

\* a request without the flag returned: no progress was reported, and a superblock
\* of the partition carries modifications
C30_Witness ==
    /\ swork.op = "partition" /\ swork.pc = "returned"
    /\ ~swork.enforce_constraints
    /\ squeue = <<>>
    /\ \E i \in 1..Len(superblocks) : superblocks[i].modifications # <<>>

(***************************************************************************)
(* POST /partition, POST /partition/stream and POST /route over the        *)
(* process-wide partition_cache.  Every handler is a coroutine of the one  *)
(* event loop: it runs from one await to the next without interruption.    *)
(* Graphs and partitions are objects of eheap, referred to by their index. *)
(***************************************************************************)
MaxRequests == 2
Requests == 1..MaxRequests

\* the bounding boxes asked for, <<west, east>>; both hold the whole city
AreaBoxes == {<<0, 8>>, <<0, 12>>}
\* the longitudes of the route requests; 14 lies in no bounding box
EndpointX == {1, 5, 14}

\* cache_key: the f-string of the bounds
CacheKey(bbox) == <<"east", bbox[2], "west", bbox[1]>>

\* what run_partition_sync returns for the city: its graph and a partition of it
CityGraphs ==
    {RouteStreet(1, 2, "residential", 12, "two_way") \cup RouteStreet(2, 3, "residential", 23, c2)
       \cup RouteStreet(3, 4, "residential", 34, c3)
       \cup RouteStreet(4, 5, "residential", 45, "two_way")
       \cup RouteStreet(1, 3, "primary", 13, "two_way")
       \cup RouteStreet(3, 5, "primary", 35, "two_way")
     : c2 \in {"two_way", "none"}, c3 \in {"two_way", "trunk"}}
PartitionResults ==
    UNION {{[graph |-> g, partition |-> part] : part \in RoutePartitions(g)} : g \in CityGraphs}

\* partition_cache[cache_key] = {...}: a new key goes last, a known key keeps its place
CacheIndex(cache, key) == {i \in 1..Len(cache) : cache[i].key = key}
CacheInsert(cache, key, entry) ==
    IF CacheIndex(cache, key) = {} THEN Append(cache, entry)
    ELSE [cache EXCEPT ![CHOOSE i \in CacheIndex(cache, key) : TRUE] = entry]

\* the awaits of the handlers: where a coroutine hands the event loop back
AwaitsAlsoInLookup(pc) == pc \in {"executor", "network", "streaming", "done", "scan"}
Awaits(pc) == pc \in {"executor", "network", "streaming", "done"}
Release(r, pc) == IF Awaits(pc) THEN 0 ELSE r
\* requests are numbered in their order of arrival
Arrives(r) == ereqs[r].pc = "new" /\ \A q \in 1..(r - 1) : ereqs[q].pc # "new"
Runs(r) == eloop \in {0, r}

\* no lock is declared for partition_cache, so no request ever holds one
LockHolders == {}

NewRequest == [kind |-> "none", pc |-> "new"]
Done(req, response) == [kind |-> req.kind, pc |-> "done", response |-> response]
InitEndpoint ==
    /\ partition_cache = <<>>
    /\ eheap = <<>>
    /\ ereqs = [r \in Requests |-> NewRequest]
    /\ eloop = 0
    /\ IdleEnf /\ IdleApply /\ IdleSize /\ IdleRoute /\ IdleStream /\ IdleScore
    /\ IdleCache

\* the insert of both partition endpoints
StoreResult(bbox, result) ==
    /\ eheap' = eheap \o <<result.graph, result.partition>>
    /\ partition_cache' = CacheInsert(partition_cache, CacheKey(bbox),
                                      [key |-> CacheKey(bbox), bbox |-> bbox,
                                       graph |-> Len(eheap) + 1,
                                       partition |-> Len(eheap) + 2])

\* partition_city up to await loop.run_in_executor
PartitionCity(r, bbox) ==
    /\ Runs(r) /\ Arrives(r)
    /\ ereqs' = [ereqs EXCEPT ![r] = [kind |-> "partition", pc |-> "executor", bbox |-> bbox]]
    /\ eloop' = Release(r, "executor")
    /\ UNCHANGED <<partition_cache, eheap, otherVars>>

\* partition_city from the result of the executor to await get_street_network
PartitionInsert(r, result) ==
    /\ Runs(r) /\ ereqs[r].kind = "partition" /\ ereqs[r].pc = "executor"
    /\ StoreResult(ereqs[r].bbox, result)
    /\ ereqs' = [ereqs EXCEPT ![r].pc = "network"]
    /\ eloop' = Release(r, "network")
    /\ UNCHANGED otherVars

\* partition_city when run_partition_sync raises: HTTP 400 or 500
PartitionRaises(r, status) ==
    /\ Runs(r) /\ ereqs[r].kind = "partition" /\ ereqs[r].pc = "executor"
    /\ ereqs' = [ereqs EXCEPT ![r] = Done(@, [status |-> status])]
    /\ eloop' = Release(r, "done")
    /\ UNCHANGED <<partition_cache, eheap, otherVars>>

\* partition_city after get_street_network: the response, or HTTP 500
PartitionReturn(r, status) ==
    /\ Runs(r) /\ ereqs[r].kind = "partition" /\ ereqs[r].pc = "network"
    /\ ereqs' = [ereqs EXCEPT ![r] = Done(@, [status |-> status])]
    /\ eloop' = Release(r, "done")
    /\ UNCHANGED <<partition_cache, eheap, otherVars>>

\* partition_city_stream: generate() started, the worker thread is computing
PartitionCityStream(r, bbox) ==
    /\ Runs(r) /\ Arrives(r)
    /\ ereqs' = [ereqs EXCEPT ![r] = [kind |-> "stream", pc |-> "streaming", bbox |-> bbox]]
    /\ eloop' = Release(r, "streaming")
    /\ UNCHANGED <<partition_cache, eheap, otherVars>>

\* generate() after the drain, with a result: the insert and the "complete" record
StreamComplete(r, result) ==
    /\ Runs(r) /\ ereqs[r].kind = "stream" /\ ereqs[r].pc = "streaming"
    /\ StoreResult(ereqs[r].bbox, result)
    /\ ereqs' = [ereqs EXCEPT ![r] = Done(@, [type |-> "complete"])]
    /\ eloop' = Release(r, "done")
    /\ UNCHANGED otherVars

\* generate() after the drain, with an error or with no result
StreamError(r) ==
    /\ Runs(r) /\ ereqs[r].kind = "stream" /\ ereqs[r].pc = "streaming"
    /\ ereqs' = [ereqs EXCEPT ![r] = Done(@, [type |-> "error"])]
    /\ eloop' = Release(r, "done")
    /\ UNCHANGED <<partition_cache, eheap, otherVars>>

\* the texts of the responses are kept as the parts an f-string joins
TextIsEmpty(t) == \A i \in DOMAIN t : t[i] = ""
Returned200(result) == [status |-> 200, body |-> [result EXCEPT !.blocked_reason = <<@>>]]

\* compute_route, except Exception: the RouteResult that carries str(e)
CaughtWithBareMessage(message) ==
    [status |-> 200, body |-> [Failure("") EXCEPT !.blocked_reason = <<message>>]]
Caught(message) ==
    [status |-> 200,
     body |-> [Failure("") EXCEPT !.blocked_reason = <<"Error computing route: ", message>>]]
RouteDone(req, response) ==
    [kind |-> "route", pc |-> "done", origin |-> req.origin, destination |-> req.destination,
     respect_superblocks |-> req.respect_superblocks, response |-> response]

\* compute_route up to the for loop over partition_cache.items()
ComputeRoute(r, ox, dx, respect_superblocks) ==
    /\ Runs(r) /\ Arrives(r)
    /\ ereqs' = [ereqs EXCEPT ![r] =
                    [kind |-> "route", pc |-> "scan", origin |-> ox, destination |-> dx,
                     respect_superblocks |-> respect_superblocks,
                     cursor |-> 1, size |-> Len(partition_cache)]]
    /\ eloop' = Release(r, "scan")
    /\ UNCHANGED <<partition_cache, eheap, otherVars>>

InBox(bbox, x) == bbox[1] <= x /\ x <= bbox[2]

\* one turn of the for loop: the dict iterator raises when the dict changed size
RouteScan(r) ==
    LET req == ereqs[r]
        next == IF Len(partition_cache) # req.size
                  THEN RouteDone(req, Caught("dictionary changed size during iteration"))
                ELSE IF req.cursor > Len(partition_cache)
                  THEN RouteDone(req, Returned200(
                          Failure("No partition found for this area. Run /partition first.")))
                ELSE IF InBox(partition_cache[req.cursor].bbox, req.origin)
                        /\ InBox(partition_cache[req.cursor].bbox, req.destination)
                  THEN [req EXCEPT !.pc = "build"]
                ELSE [req EXCEPT !.cursor = @ + 1]
    IN /\ Runs(r) /\ req.kind = "route" /\ req.pc = "scan"
       /\ ereqs' = [ereqs EXCEPT ![r] = next]
       /\ eloop' = Release(r, next.pc)
       /\ UNCHANGED <<partition_cache, eheap, otherVars>>

\* nx.MultiDiGraph.copy(): a new graph object with attribute dicts of its own
CopyGraphAsView(heap, id) == [heap |-> heap, id |-> id]
CopyGraph(heap, id) == [heap |-> Append(heap, heap[id]), id |-> Len(heap) + 1]

\* SuperblockRouter.__init__: self.graph is the cached graph, self.modified_graph
\* a copy of it that _build_modified_graph changes in place
RouterInit(heap, graph, partition) ==
    LET copy == CopyGraph(heap, graph)
    IN [heap |-> [copy.heap EXCEPT ![copy.id] =
                     BuildModifiedGraph(@, heap[partition].superblocks)],
        graph |-> graph, partition |-> partition, modified_graph |-> copy.id]

\* compute_route: router_instance = SuperblockRouter(...), or the constructor raises
RouteBuild(r, raised, message) ==
    LET req == ereqs[r]
        matching_cache == partition_cache[req.cursor]
        router == RouterInit(eheap, matching_cache.graph, matching_cache.partition)
    IN /\ Runs(r) /\ req.kind = "route" /\ req.pc = "build"
       /\ IF raised
            THEN /\ ereqs' = [ereqs EXCEPT ![r] = RouteDone(req, Caught(message))]
                 /\ eloop' = Release(r, "done")
                 /\ UNCHANGED eheap
            ELSE /\ ereqs' = [ereqs EXCEPT ![r] =
                                [kind |-> "route", pc |-> "route", origin |-> req.origin,
                                 destination |-> req.destination,
                                 respect_superblocks |-> req.respect_superblocks,
                                 router |-> [graph |-> router.graph,
                                             partition |-> router.partition,
                                             modified_graph |-> router.modified_graph]]]
                 /\ eloop' = Release(r, "route")
                 /\ eheap' = router.heap
       /\ UNCHANGED <<partition_cache, otherVars>>

\* compute_route: router_instance.route(request) returns or raises
RouteAnswer(r, raised, message) ==
    LET req == ereqs[r]
        router == req.router
        result == RouteRequest(eheap[router.modified_graph], eheap[router.partition],
                               req.origin, req.destination, req.respect_superblocks)
    IN /\ Runs(r) /\ req.kind = "route" /\ req.pc = "route"
       /\ ereqs' = [ereqs EXCEPT ![r] =
                       RouteDone(req, IF raised THEN Caught(message)
                                      ELSE Returned200(result))]
       /\ eloop' = Release(r, "done")
       /\ UNCHANGED <<partition_cache, eheap, otherVars>>

ExceptionMessages == {"", "failed"}
NextEndpoint ==
    \E r \in Requests :
        \/ \E bbox \in AreaBoxes : PartitionCity(r, bbox)
        \/ \E result \in PartitionResults : PartitionInsert(r, result)
        \/ \E status \in {400, 500} : PartitionRaises(r, status)
        \/ \E status \in {200, 500} : PartitionReturn(r, status)
        \/ \E bbox \in AreaBoxes : PartitionCityStream(r, bbox)
        \/ \E result \in PartitionResults : StreamComplete(r, result)
        \/ StreamError(r)
        \/ \E ox \in EndpointX, dx \in EndpointX, respect \in BOOLEAN : ComputeRoute(r, ox, dx, respect)
        \/ RouteScan(r)
        \/ \E message \in ExceptionMessages : RouteBuild(r, TRUE, message)
        \/ RouteBuild(r, FALSE, "")
        \/ \E message \in ExceptionMessages : RouteAnswer(r, TRUE, message)
        \/ RouteAnswer(r, FALSE, "")
SpecEndpoint == InitEndpoint /\ [][NextEndpoint]_vars

RouteRequests == {r \in Requests : ereqs[r].kind = "route"}
Answered == {r \in RouteRequests : ereqs[r].pc = "done"}
LookingUp == {r \in RouteRequests : ereqs[r].pc = "scan"}

\* C11: every answer of POST /route is a RouteResult, never a propagated exception,
\* and a RouteResult with success = false carries a non-empty blocked_reason; this
\* holds when no cached bounding box contains the request and when routing raises.
C11_FailedRouteCarriesReason ==
    \A r \in Answered :
        /\ ereqs[r].response.status = 200
        /\ ~ereqs[r].response.body.success
             => ~TextIsEmpty(ereqs[r].response.body.blocked_reason)

\* routing raised an exception with an empty message and the request was answered
C11_Witness ==
    \E r \in Answered :
        /\ ~ereqs[r].response.body.success
        /\ ereqs[r].response.body.blocked_reason = <<"Error computing route: ", "">>

\* C12: building a router and computing routes leaves the cached graph and the
\* cached partition as they were: no step changes an object a cache entry refers to.
C12_CachedObjectsUnchanged ==
    [][\A k \in 1..Len(partition_cache) :
          /\ eheap'[partition_cache[k].graph] = eheap[partition_cache[k].graph]
          /\ eheap'[partition_cache[k].partition] = eheap[partition_cache[k].partition]]_vars

\* a router was built on a cached graph and its modified graph differs from it
C12_Witness ==
    \E r \in RouteRequests :
        /\ ereqs[r].pc = "route"
        /\ \E k \in 1..Len(partition_cache) : partition_cache[k].graph = ereqs[r].router.graph
        /\ eheap[ereqs[r].router.modified_graph] # eheap[ereqs[r].router.graph]

FailedPartitions ==
    {r \in Requests : ereqs[r].kind = "partition" /\ ereqs[r].pc = "done"
                        /\ ereqs[r].response.status # 200}

\* C29: POST /partition inserts into partition_cache only for a request that ends
\* in a 200 response: as long as every request that has arrived is a POST
\* /partition that failed with 400 or 500, the cache is as it was, empty.
C29_InsertOnlyOnSuccess ==
    (\A r \in Requests : ereqs[r].pc = "new" \/ r \in FailedPartitions)
        => partition_cache = <<>>

(***************************************************************************)
(* SuperblockAnalyzer.analyze: scoring the candidates and ranking them.    *)
(* A candidate is known by its index in the list of detected candidates.   *)
(***************************************************************************)
MaxCandidates == 6
Scores == {1, 2}
ParallelAbove == 5
MaxReturned == 50

\* list.sort(key=score, reverse=True): stable, equal scores keep their order
RECURSIVE SortByScore(_, _)
SortByScore(score, seq) ==
    IF seq = <<>> THEN <<>>
    ELSE LET front == SortByScore(score, SubSeq(seq, 1, Len(seq) - 1))
             last == seq[Len(seq)]
             keep == Cardinality({i \in 1..Len(front) : score[front[i]] >= score[last]})
         IN SubSeq(front, 1, keep) \o <<last>> \o SubSeq(front, keep + 1, Len(front))

FirstN(seq, n) == SubSeq(seq, 1, MinOf(n, Len(seq)))
Indices(seq) == {seq[i] : i \in 1..Len(seq)}

InitScore ==
    /\ kcands \in UNION {[1..n -> Scores] : n \in 1..MaxCandidates}
    /\ kfutures = {}
    /\ kscored = <<>>
    /\ kres = [at |-> "detected"]
    /\ IdleEnf /\ IdleApply /\ IdleSize /\ IdleRoute /\ IdleStream /\ IdleEndpoint
    /\ IdleCache

\* more than five candidates: every scoring task is submitted to the pool
SubmitAll ==
    /\ kres.at = "detected" /\ Len(kcands) > ParallelAbove /\ MinOf(4, Len(kcands)) > 1
    /\ kfutures' = DOMAIN kcands
    /\ kres' = [at |-> "collecting"]
    /\ UNCHANGED <<kcands, kscored, enfVars, applyVars, sizeVars, routeVars, streamVars, endVars, cacheVars>>

\* as_completed hands over the task of candidate i, which returned
CollectScored(i) ==
    /\ kres.at = "collecting" /\ i \in kfutures
    /\ kscored' = Append(kscored, i)
    /\ kfutures' = kfutures \ {i}
    /\ UNCHANGED <<kcands, kres, enfVars, applyVars, sizeVars, routeVars, streamVars, endVars, cacheVars>>

\* as_completed hands over the task of candidate i, which raised: logged, dropped
CollectFailed(i) ==
    /\ kres.at = "collecting" /\ i \in kfutures
    /\ kfutures' = kfutures \ {i}
    /\ UNCHANGED <<kcands, kscored, kres, enfVars, applyVars, sizeVars, routeVars, streamVars, endVars, cacheVars>>

\* five candidates or fewer: scored one after the other, in index order
ScoreSequentially ==
    /\ kres.at = "detected" /\ ~(Len(kcands) > ParallelAbove /\ MinOf(4, Len(kcands)) > 1)
    /\ kscored' = [i \in 1..Len(kcands) |-> i]
    /\ kres' = [at |-> "collecting"]
    /\ UNCHANGED <<kcands, kfutures, enfVars, applyVars, sizeVars, routeVars, streamVars, endVars, cacheVars>>

\* scored_candidates.sort(...) and the candidates of the result
RankAndReturn ==
    /\ kres.at = "collecting" /\ kfutures = {}
    /\ kscored' = SortByScore(kcands, kscored)
    /\ kres' = [at |-> "returned", candidates |-> FirstN(kscored', MaxReturned)]
    /\ UNCHANGED <<kcands, kfutures, enfVars, applyVars, sizeVars, routeVars, streamVars, endVars, cacheVars>>

NextScore ==
    \/ SubmitAll
    \/ \E i \in 1..MaxCandidates : CollectScored(i)
    \/ \E i \in 1..MaxCandidates : CollectFailed(i)
    \/ ScoreSequentially
    \/ RankAndReturn
SpecScore == InitScore /\ [][NextScore]_vars

\* the returned candidates in the order the scores and the indices fix
RECURSIVE ByScoreThenIndex(_, _)
ByScoreThenIndex(score, S) ==
    IF S = {} THEN <<>>
    ELSE LET first == CHOOSE i \in S :
                         \A j \in S : score[i] > score[j] \/ (score[i] = score[j] /\ i <= j)
         IN <<first>> \o ByScoreThenIndex(score, S \ {first})

\* C15: the order of the returned candidates does not depend on the order in which
\* the scoring tasks complete: it is the order fixed by the scores and, among
\* equal scores, by the candidate index.
C15_ResultOrderIsStable ==
    kres.at = "returned"
        => kres.candidates = FirstN(ByScoreThenIndex(kcands, Indices(kscored)), MaxReturned)

(***************************************************************************)
(* CacheService: a directory of JSON files, one per cache key.  An         *)
(* optional argument is <<>> for None and <<x>> for the value x; a params  *)
(* dict is the sequence of its <<key, value>> items in insertion order.    *)
(***************************************************************************)
MaxCacheOps == 3
MaxTime == 2
None == <<>>
Some(x) == <<x>>

CacheTypes == {"network", "analysis"}
ParamChoices ==
    {<<(<<"a", 1>>), (<<"b", 2>>)>>, <<(<<"b", 2>>), (<<"a", 1>>)>>,
     <<(<<"a", 2>>), (<<"b", 2>>)>>, <<>>}
Unserializable == "object()"
DataChoices == {"d1", "d2", Unserializable}
TtlChoices == {None, Some(-1), Some(0)}
DefaultTtl == 1

\* json.dumps(params, sort_keys=True): the items in the order of their keys
KeyRank(k) == IF k = "a" THEN 1 ELSE 2
RECURSIVE SortKeys(_)
SortKeys(params) ==
    IF params = <<>> THEN <<>>
    ELSE LET front == SortKeys(SubSeq(params, 1, Len(params) - 1))
             last == params[Len(params)]
             keep == Cardinality({i \in 1..Len(front) :
                                    KeyRank(front[i][1]) <= KeyRank(last[1])})
         IN SubSeq(front, 1, keep) \o <<last>> \o SubSeq(front, keep + 1, Len(front))

\* _generate_cache_key: the SHA-1 of "type:sorted params", taken as the text hashed
GenerateCacheKeyUnsorted(cache_type, params) == <<cache_type, params>>
GenerateCacheKey(cache_type, params) == <<cache_type, SortKeys(params)>>

\* the file of a key: a document json.load reads, or text it cannot read
Document(cache_type, created_at, ttl_seconds, data) ==
    [readable |-> TRUE, cache_type |-> cache_type, created_at |-> created_at,
     ttl_seconds |-> ttl_seconds, data |-> data]
Truncated == [readable |-> FALSE]
Put(files, key, file) ==
    [k \in DOMAIN files \cup {key} |-> IF k = key THEN file ELSE files[k]]
Remove(files, keys) == [k \in DOMAIN files \ keys |-> files[k]]

\* CacheEntry.is_expired and the test of cleanup_expired
IsExpiredAlsoWithoutTtl(file, now) == now > file.created_at + file.ttl_seconds
IsExpired(file, now) ==
    IF file.ttl_seconds <= 0 THEN FALSE ELSE now > file.created_at + file.ttl_seconds

\* truthiness of the arguments of invalidate: None and the empty dict are false
GivenType(cache_type) == cache_type # None
GivenParams(params) == params # None /\ params[1] # <<>>

InitCache ==
    /\ cservice \in {[enabled |-> e, default_ttl |-> DefaultTtl] : e \in BOOLEAN}
    /\ cfiles = <<>>
    /\ cnow = 0
    /\ clast = [op |-> "none"]
    /\ csets = <<>>
    /\ cops = 0
    /\ IdleEnf /\ IdleApply /\ IdleSize /\ IdleRoute /\ IdleStream /\ IdleEndpoint /\ IdleScore

CacheFrame == UNCHANGED <<cservice, enfVars, applyVars, sizeVars, routeVars, streamVars,
                          endVars, scoreVars>>
Called == cops < MaxCacheOps /\ cops' = cops + 1

\* time passes
Tick ==
    /\ cnow < MaxTime
    /\ cnow' = cnow + 1
    /\ UNCHANGED <<cfiles, clast, csets, cops>>
    /\ CacheFrame

\* CacheService.set: open(cache_path, "w") empties the file, json.dump writes the
\* document or raises TypeError part of the way
CacheSet(cache_type, params, data, ttl_seconds) ==
    LET key == GenerateCacheKey(cache_type, params)
        ttl == IF ttl_seconds # None THEN ttl_seconds[1] ELSE cservice.default_ttl
        ok == cservice.enabled /\ data # Unserializable
    IN /\ Called
       /\ cfiles' = IF ~cservice.enabled THEN cfiles
                    ELSE IF data = Unserializable THEN Put(cfiles, key, Truncated)
                    ELSE Put(cfiles, key, Document(cache_type, cnow, ttl, data))
       /\ csets' = IF ok THEN Put(csets, key, Document(cache_type, cnow, ttl, data))
                   ELSE csets
       /\ clast' = [op |-> "set", cache_type |-> cache_type, params |-> params,
                    result |-> ok]
       /\ UNCHANGED cnow
       /\ CacheFrame

\* CacheService.get
CacheGet(cache_type, params) ==
    LET key == GenerateCacheKey(cache_type, params)
        found == cservice.enabled /\ key \in DOMAIN cfiles /\ cfiles[key].readable
        expired == found /\ IsExpired(cfiles[key], cnow)
    IN /\ Called
       /\ cfiles' = IF expired THEN Remove(cfiles, {key}) ELSE cfiles
       /\ clast' = [op |-> "get", cache_type |-> cache_type, params |-> params,
                    outcome |-> IF ~cservice.enabled THEN "disabled"
                                ELSE IF key \notin DOMAIN cfiles THEN "miss"
                                ELSE IF ~cfiles[key].readable THEN "read error"
                                ELSE IF expired THEN "expired" ELSE "hit",
                    result |-> IF found /\ ~expired THEN Some(cfiles[key].data) ELSE None]
       /\ UNCHANGED <<cnow, csets>>
       /\ CacheFrame

\* the keys an invalidate call is documented to cover: the entry of (cache_type,
\* params) when both are passed, the entries of cache_type when it is passed
\* alone, every entry otherwise
Covered(entries, cache_type, params) ==
    IF cache_type # None /\ params # None
      THEN {GenerateCacheKey(cache_type[1], params[1])} \cap DOMAIN entries
    ELSE IF cache_type # None
      THEN {k \in DOMAIN entries : entries[k].cache_type = cache_type[1]}
    ELSE DOMAIN entries

\* CacheService.invalidate: _delete_entry unlinks with missing_ok=True and
\* answers True; a file json.load cannot read is deleted and counted
CacheInvalidate(cache_type, params) ==
    LET specific == GivenType(cache_type) /\ GivenParams(params)
        key == GenerateCacheKey(cache_type[1], params[1])
        deleted == IF GivenType(cache_type)
                     THEN {k \in DOMAIN cfiles :
                             ~cfiles[k].readable \/ cfiles[k].cache_type = cache_type[1]}
                     ELSE DOMAIN cfiles
    IN /\ Called
       /\ cfiles' = IF ~cservice.enabled THEN cfiles
                    ELSE IF specific THEN Remove(cfiles, {key})
                    ELSE Remove(cfiles, deleted)
       /\ csets' = Remove(csets, Covered(csets, cache_type, params))
       /\ clast' = [op |-> "invalidate", cache_type |-> cache_type, params |-> params,
                    result |-> IF ~cservice.enabled THEN 0
                               ELSE IF specific THEN 1
                               ELSE Cardinality(deleted)]
       /\ UNCHANGED cnow
       /\ CacheFrame

\* CacheService.cleanup_expired
CleanupExpired ==
    LET deleted == {k \in DOMAIN cfiles :
                      ~cfiles[k].readable
                      \/ (cfiles[k].ttl_seconds > 0
                          /\ cnow > cfiles[k].created_at + cfiles[k].ttl_seconds)}
    IN /\ Called
       /\ cfiles' = IF cservice.enabled THEN Remove(cfiles, deleted) ELSE cfiles
       /\ clast' = [op |-> "cleanup_expired",
                    result |-> IF cservice.enabled THEN Cardinality(deleted) ELSE 0]
       /\ UNCHANGED <<cnow, csets>>
       /\ CacheFrame

OptionalTypes == {None} \cup {Some(t) : t \in CacheTypes}
OptionalParams == {None} \cup {Some(p) : p \in ParamChoices}
NextCache ==
    \/ Tick
    \/ \E t \in CacheTypes, p \in ParamChoices, d \in DataChoices, ttl \in TtlChoices :
          CacheSet(t, p, d, ttl)
    \/ \E t \in CacheTypes, p \in ParamChoices : CacheGet(t, p)
    \/ \E t \in OptionalTypes, p \in OptionalParams : CacheInvalidate(t, p)
    \/ CleanupExpired
SpecCache == InitCache /\ [][NextCache]_vars

\* the key of the get or set that was the last call
LastKey == GenerateCacheKey(clast.cache_type, clast.params)
IsCall(op) == clast'.op = op /\ cops' = cops + 1
Entries(files) == {k \in DOMAIN files : files[k].readable}

\* C17: on an enabled service, get returns the data of the most recent successful
\* set for the same cache type and params while that entry is neither expired
\* nor invalidated, whatever the key order of params and whatever was set for
\* other params.
C17_GetReturnsLastSet ==
    (clast.op = "get" /\ cservice.enabled)
        => ((LastKey \in DOMAIN csets /\ ~IsExpired(csets[LastKey], cnow))
               => clast.result = Some(csets[LastKey].data))

\* C18: get never returns an entry stored with ttl_seconds > 0 once the time is
\* past created_at + ttl_seconds, it returns None and removes the entry; an entry
\* stored with ttl_seconds <= 0 is returned by get and kept by get and by
\* cleanup_expired, whatever the time.
C18_ExpiryByTtl ==
    [][/\ IsCall("get") /\ cservice.enabled
          => LET key == GenerateCacheKey(clast'.cache_type, clast'.params)
             IN key \in Entries(cfiles)
                  => /\ (cfiles[key].ttl_seconds > 0
                           /\ cnow > cfiles[key].created_at + cfiles[key].ttl_seconds)
                        => (clast'.result = None /\ key \notin DOMAIN cfiles')
                     /\ cfiles[key].ttl_seconds <= 0
                        => (clast'.result = Some(cfiles[key].data) /\ cfiles' = cfiles)
       /\ IsCall("cleanup_expired")
          => \A k \in Entries(cfiles) :
                cfiles[k].ttl_seconds <= 0 => (k \in DOMAIN cfiles' /\ cfiles'[k] = cfiles[k])]_vars

\* get found an entry past its time, answered None and removed the file
C18_Witness ==
    /\ clast.op = "get" /\ clast.outcome = "expired" /\ clast.result = None
    /\ LastKey \in DOMAIN csets /\ csets[LastKey].ttl_seconds > 0
    /\ cnow > csets[LastKey].created_at + csets[LastKey].ttl_seconds
    /\ LastKey \notin DOMAIN cfiles

\* C19: invalidate(cache_type = T) without params removes exactly the stored entries
\* of type T and returns their number; the entries of the other types stay as
\* they are.
C19_InvalidateByType ==
    [][(IsCall("invalidate") /\ cservice.enabled
          /\ clast'.cache_type # None /\ clast'.params = None)
       => LET ofType == {k \in Entries(cfiles) : cfiles[k].cache_type = clast'.cache_type[1]}
          IN /\ clast'.result = Cardinality(ofType)
             /\ \A k \in ofType : k \notin DOMAIN cfiles'
             /\ \A k \in Entries(cfiles) \ ofType :
                   k \in DOMAIN cfiles' /\ cfiles'[k] = cfiles[k]]_vars

\* C20: invalidate(cache_type, params) returns 1 when a file was stored for that
\* key and 0 when none was, and no file is left for the key.
C20_InvalidateSpecific ==
    [][(IsCall("invalidate") /\ cservice.enabled
          /\ clast'.cache_type # None /\ clast'.params # None)
       => LET key == GenerateCacheKey(clast'.cache_type[1], clast'.params[1])
          IN /\ clast'.result = (IF key \in DOMAIN cfiles THEN 1 ELSE 0)
             /\ key \notin DOMAIN cfiles']_vars
====
